---- MODULE Spec2Model ----
(***************************************************************************)
(* Index-backed query filtering and range resolution over an ordered      *)
(* key-value store (filterUsingIndex, countUsingIndexOnly,                *)
(* getIndexRanges).                                                       *)
(*                                                                         *)
(* Values are integers so that the store order is the integer order:      *)
(*   BinaryInfinityNegative < Null < undefinedSymbol < 1 .. MaxVal         *)
(*                                              < BinaryInfinityPositive  *)
(* A RangeValue is a sequence of such atoms: <<v>> for a plain value and  *)
(* <<v, BinaryInfinityPositive>> for the edge after v.  A RangeBoundary   *)
(* is a sequence of RangeValues; the store compares its flattening with   *)
(* the keys lexicographically.                                            *)
(***************************************************************************)
EXTENDS Integers, Sequences, FiniteSets, TLC

VARIABLES
  args,          \* IFilterArgs of the call: dbQueries, indexMetadata, limit, skip, reverse
  store,         \* databases.indexes: the set of index keys
  pc,            \* "idle", "ranges" (getIndexRanges returned), "filter"
                 \* (filterUsingIndex returned), "count" (countUsingIndexOnly
                 \* returned), or "ranges_threw", "filter_threw", "count_threw"
  ranges,        \* the ranges compiled by getIndexRanges
  usedQueries,   \* context.usedQueries: positions in dbQueries
  usedLimit,     \* context.usedLimit
  usedSkip,      \* context.usedSkip
  lmdbRanges,    \* the store ranges traverseRanges will open, in order
  opened,        \* how many of them have been opened (getRange calls issued)
  scanned,       \* the entries the store scans have yielded so far
  entries,       \* the entries the returned sequence has yielded so far
  filtersToApply,\* the queries narrowResultsIfPossible applies to each entry
  dedup,         \* whether the returned sequence is deduplicated
  count,         \* the result of countUsingIndexOnly
  keysCountCalls \* the getKeysCount calls issued, in order

vars == <<args, store, pc, ranges, usedQueries, usedLimit, usedSkip, lmdbRanges,
          opened, scanned, entries, filtersToApply, dedup, count, keysCountCalls>>

(* ---------------------------- bounds ---------------------------------- *)
\* filter operands are Null or 1..MaxVal
MaxVal == 3
\* stored field values are Null, undefinedSymbol or 1..MaxStoreVal
MaxStoreVal == 2
\* number of records (nodes) in the index
MaxRecords == 3
\* requested limit is absent or 0..MaxLimit, requested skip absent or 0..MaxSkip
MaxLimit == 2
MaxSkip == 1

(* ------------------------- value encoding ----------------------------- *)
BinaryInfinityNegative == -3
Null == -2
undefinedSymbol == -1
BinaryInfinityPositive == 99
\* a filter operand that is a non-null object
ObjectValue == 50
\* an optional number that was not given (limit, usedLimit)
Undefined == -9

DefinedVals == 1..MaxVal
OperandVals == {Null} \cup DefinedVals
StoreVals == {Null, undefinedSymbol} \cup (1..MaxStoreVal)
\* every value a key field can hold, beyond the operands too
KeyVals == {Null, undefinedSymbol} \cup (1..(MaxVal + 1))

ValueEdgesEQ == 0
ValueEdgesAFTER == 1
ValueEdgesBEFORE == -1

(* ------------------------ sequence helpers ---------------------------- *)
RECURSIVE Flatten(_)
Flatten(b) == IF b = <<>> THEN <<>> ELSE Head(b) \o Flatten(Tail(b))

Min2(a, b) == IF a < b THEN a ELSE b

\* lexicographic order of two atom sequences; a proper prefix is smaller
RECURSIVE LexLess(_, _)
LexLess(a, b) ==
  IF b = <<>> THEN FALSE
  ELSE IF a = <<>> THEN TRUE
  ELSE IF Head(a) # Head(b) THEN Head(a) < Head(b)
  ELSE LexLess(Tail(a), Tail(b))

LexLeq(a, b) == a = b \/ LexLess(a, b)

SeqRange(s) == {s[i] : i \in DOMAIN s}

\* the elements of a finite set of atom sequences in ascending store order
RECURSIVE SortKeys(_)
SortKeys(S) ==
  IF S = {} THEN <<>>
  ELSE LET m == CHOOSE x \in S : \A y \in S : LexLeq(x, y)
       IN <<m>> \o SortKeys(S \ {m})

RECURSIVE Reverse(_)
Reverse(s) == IF s = <<>> THEN <<>> ELSE Reverse(Tail(s)) \o <<Head(s)>>

Take(s, n) == SubSeq(s, 1, Min2(n, Len(s)))
Drop(s, n) == SubSeq(s, Min2(n, Len(s)) + 1, Len(s))

(* --------------------- filter statement model ------------------------- *)
\* A DbQuery is [field, comparator, isArray, value]; value is the operand
\* list (one element for a scalar operand).  A query is identified by its
\* position in dbQueries, as the code identifies it by object identity.
dbQueryToDottedField(q) == q.field
getFilterStatement(q) == q

Statement(f, c, v) == [field |-> f, comparator |-> c, isArray |-> FALSE, value |-> <<v>>]
ArrStatement(f, c, arr) == [field |-> f, comparator |-> c, isArray |-> TRUE, value |-> arr]

comparatorSpecificity(c) ==
  CASE c = "EQ" -> 1 [] c = "IN" -> 2 [] c = "GTE" -> 3 [] c = "LTE" -> 4
    [] c = "GT" -> 5 [] c = "LT" -> 6 [] c = "NIN" -> 7 [] c = "NE" -> 8
    [] OTHER -> 9

\* stable sort of query positions, most specific comparator first
RECURSIVE InsertBySpecificity(_, _, _)
InsertBySpecificity(dbQueries, sorted, i) ==
  IF sorted = <<>> THEN <<i>>
  ELSE IF comparatorSpecificity(dbQueries[i].comparator)
            < comparatorSpecificity(dbQueries[Head(sorted)].comparator)
       THEN <<i>> \o sorted
       ELSE <<Head(sorted)>> \o InsertBySpecificity(dbQueries, Tail(sorted), i)

RECURSIVE sortBySpecificity(_, _)
sortBySpecificity(dbQueries, idxs) ==
  IF idxs = <<>> THEN <<>>
  ELSE InsertBySpecificity(dbQueries,
         sortBySpecificity(dbQueries, SubSeq(idxs, 1, Len(idxs) - 1)),
         idxs[Len(idxs)])

isEqualityQuery(q) == q.comparator \in {"EQ", "IN"}
isNegatedQuery(q) == q.comparator \in {"NE", "NIN"}

isMultiKeyIndex(indexMetadata) == indexMetadata.multiKeyFields # {}

(* ------------------------- value primitives --------------------------- *)
getValueEdgeAfter(value) == <<value, BinaryInfinityPositive>>
getValueEdgeBefore(value) == <<undefinedSymbol, value>>

\* toIndexFieldValue throws for a non-null object
toIndexFieldValueThrows(filterValue) == filterValue = ObjectValue

(* --------------------------- range resolver --------------------------- *)
RECURSIVE SortAsc(_)
SortAsc(S) ==
  IF S = {} THEN <<>>
  ELSE LET m == CHOOSE x \in S : \A y \in S : x <= y
       IN <<m>> \o SortAsc(S \ {m})

\* arr.sort(by sortDirection) followed by new Set(arr): the distinct
\* operands in the field's sort direction
sortOperand(arr, sortDirection) ==
  IF sortDirection = 1 THEN SortAsc(SeqRange(arr))
  ELSE Reverse(SortAsc(SeqRange(arr)))

NoEdge(used, threw) ==
  [nullish |-> TRUE, value |-> <<>>, used |-> used, threw |-> threw]

\* mutant: the consumed filter replaces the set of consumed filters
resolveRangeEdge_UsedReplaced(dbQueries, used, indexField, predicate, edge) ==
  LET cand == {i \in DOMAIN dbQueries :
                 /\ dbQueryToDottedField(dbQueries[i]) = indexField
                 /\ i \notin used
                 /\ getFilterStatement(dbQueries[i]).comparator = predicate}
  IN IF cand = {} THEN NoEdge(used, FALSE)
     ELSE [nullish |-> FALSE,
           value |-> <<dbQueries[CHOOSE x \in cand : \A y \in cand : x <= y].value[1]>>,
           used |-> cand,
           threw |-> FALSE]

\* The first not yet consumed filter on indexField with the given
\* comparator is consumed and its operand (or the edge after/before it)
\* returned.  nullish: what the caller's `??` treats as absent.
resolveRangeEdge(dbQueries, used, indexField, predicate, edge) ==
  LET cand == {i \in DOMAIN dbQueries :
                 /\ dbQueryToDottedField(dbQueries[i]) = indexField
                 /\ i \notin used
                 /\ getFilterStatement(dbQueries[i]).comparator = predicate}
  IN IF cand = {} THEN NoEdge(used, FALSE)
     ELSE LET i == CHOOSE x \in cand : \A y \in cand : x <= y
              q == getFilterStatement(dbQueries[i])
          IN IF q.isArray \/ q.value[1] = ObjectValue
             THEN NoEdge(used \cup {i}, TRUE)
             ELSE [nullish |-> (edge = ValueEdgesEQ /\ q.value[1] = Null),
                   value |-> IF edge = ValueEdgesEQ THEN <<q.value[1]>>
                             ELSE IF edge < 0 THEN getValueEdgeBefore(q.value[1])
                             ELSE getValueEdgeAfter(q.value[1]),
                   used |-> used \cup {i},
                   threw |-> FALSE]

FieldThrow(used) ==
  [rangeStarts |-> <<>>, rangeEndings |-> <<>>, used |-> used, threw |-> TRUE]

ResolveEqIn(filter, used, sortDirection) ==
  LET arr == sortOperand(filter.value, sortDirection)
      hasNull == \E k \in DOMAIN arr : arr[k] = Null
      tailS == IF hasNull THEN << <<undefinedSymbol>> >> ELSE <<>>
      tailE == IF hasNull THEN << getValueEdgeAfter(undefinedSymbol) >> ELSE <<>>
  IN IF \E k \in DOMAIN arr : toIndexFieldValueThrows(arr[k])
     THEN FieldThrow(used)
     ELSE [rangeStarts |-> [k \in DOMAIN arr |-> <<arr[k]>>] \o tailS,
           rangeEndings |-> [k \in DOMAIN arr |-> getValueEdgeAfter(arr[k])] \o tailE,
           used |-> used, threw |-> FALSE]

\* `first ?? resolveRangeEdge(...)`: the second edge is looked for only when
\* the first lookup gave a nullish result
orResolveRangeEdge(first, dbQueries, indexField, predicate, edge) ==
  IF first.threw \/ ~first.nullish THEN first
  ELSE resolveRangeEdge(dbQueries, first.used, indexField, predicate, edge)

\* mutant: without a lower bound the range starts at BinaryInfinityNegative
LtLteRange_HeadAtBottom(filter, lower) ==
  IF lower.threw THEN FieldThrow(lower.used)
  ELSE [rangeStarts |-> << IF lower.nullish THEN <<BinaryInfinityNegative>> ELSE lower.value >>,
        rangeEndings |-> << IF filter.comparator = "LT" THEN <<filter.value[1]>>
                            ELSE getValueEdgeAfter(filter.value[1]) >>,
        used |-> lower.used, threw |-> FALSE]

\* the range of an LT/LTE filter, given the resolved lower edge
LtLteRange(filter, lower) ==
  LET value == filter.value[1]
      end == IF filter.comparator = "LT" THEN <<value>> ELSE getValueEdgeAfter(value)
      rangeHead == IF value = Null THEN <<BinaryInfinityNegative>>
                   ELSE getValueEdgeAfter(undefinedSymbol)
  IN IF lower.threw THEN FieldThrow(lower.used)
     ELSE [rangeStarts |-> << IF lower.nullish THEN rangeHead ELSE lower.value >>,
           rangeEndings |-> << end >>,
           used |-> lower.used, threw |-> FALSE]

ResolveLtLte(dbQueries, filter, used, field) ==
  IF filter.isArray \/ toIndexFieldValueThrows(filter.value[1]) THEN FieldThrow(used)
  ELSE LtLteRange(filter,
         orResolveRangeEdge(resolveRangeEdge(dbQueries, used, field, "GTE", ValueEdgesEQ),
                            dbQueries, field, "GT", ValueEdgesAFTER))

\* mutant: GTE starts after the value, as GT does
GtGteRange_GteAsGt(filter, upper) ==
  [rangeStarts |-> << getValueEdgeAfter(filter.value[1]) >>,
   rangeEndings |-> << IF upper.nullish THEN <<BinaryInfinityPositive>> ELSE upper.value >>,
   used |-> upper.used, threw |-> upper.threw]

\* the range of a GT/GTE filter, given the resolved upper edge
GtGteRange(filter, upper) ==
  LET value == filter.value[1]
      start == IF filter.comparator = "GTE" THEN <<value>> ELSE getValueEdgeAfter(value)
      rangeTail == IF value = Null THEN getValueEdgeAfter(Null)
                   ELSE <<BinaryInfinityPositive>>
  IN IF upper.threw THEN FieldThrow(upper.used)
     ELSE [rangeStarts |-> << start >>,
           rangeEndings |-> << IF upper.nullish THEN rangeTail ELSE upper.value >>,
           used |-> upper.used, threw |-> FALSE]

ResolveGtGte(dbQueries, filter, used, field) ==
  IF filter.isArray \/ toIndexFieldValueThrows(filter.value[1]) THEN FieldThrow(used)
  ELSE GtGteRange(filter,
         orResolveRangeEdge(resolveRangeEdge(dbQueries, used, field, "LTE", ValueEdgesAFTER),
                            dbQueries, field, "LT", ValueEdgesEQ))

\* mutant: the head of the first range is chosen the other way round
ResolveNeNin_HeadSwapped(filter, used, sortDirection) ==
  LET arr == sortOperand(filter.value, sortDirection)
      hasNull == \E k \in DOMAIN arr : arr[k] = Null
      items == SelectSeq(arr, LAMBDA v : v # Null)
      first == IF hasNull THEN <<BinaryInfinityNegative>>
               ELSE getValueEdgeAfter(undefinedSymbol)
  IN IF \E k \in DOMAIN arr : toIndexFieldValueThrows(arr[k])
     THEN FieldThrow(used)
     ELSE [rangeStarts |-> <<first>> \o [k \in DOMAIN items |-> getValueEdgeAfter(items[k])],
           rangeEndings |-> [k \in DOMAIN items |-> <<items[k]>>] \o << <<BinaryInfinityPositive>> >>,
           used |-> used, threw |-> FALSE]

ResolveNeNin(filter, used, sortDirection) ==
  LET arr == sortOperand(filter.value, sortDirection)
      hasNull == \E k \in DOMAIN arr : arr[k] = Null
      items == SelectSeq(arr, LAMBDA v : v # Null)
      first == IF hasNull THEN getValueEdgeAfter(undefinedSymbol)
               ELSE <<BinaryInfinityNegative>>
  IN IF \E k \in DOMAIN arr : toIndexFieldValueThrows(arr[k])
     THEN FieldThrow(used)
     ELSE [rangeStarts |-> <<first>> \o [k \in DOMAIN items |-> getValueEdgeAfter(items[k])],
           rangeEndings |-> [k \in DOMAIN items |-> <<items[k]>>] \o << <<BinaryInfinityPositive>> >>,
           used |-> used, threw |-> FALSE]

\* fieldInfo is <<fieldName, sortDirection>>; qi the position of the chosen query
resolveIndexFieldRanges(dbQueries, used0, qi, fieldInfo) ==
  LET filter == getFilterStatement(dbQueries[qi])
      used == used0 \cup {qi}
      c == filter.comparator
  IN IF c = "IN" /\ ~filter.isArray THEN FieldThrow(used0)
     ELSE IF c \in {"EQ", "IN"} THEN ResolveEqIn(filter, used, fieldInfo[2])
     ELSE IF c \in {"LT", "LTE"} THEN ResolveLtLte(dbQueries, filter, used, fieldInfo[1])
     ELSE IF c \in {"GT", "GTE"} THEN ResolveGtGte(dbQueries, filter, used, fieldInfo[1])
     ELSE IF c \in {"NE", "NIN"} THEN ResolveNeNin(filter, used, fieldInfo[2])
     ELSE FieldThrow(used)

(* --------------------------- range compiler --------------------------- *)
SupportedComparators == {"EQ", "IN", "GTE", "LTE", "GT", "LT", "NIN", "NE"}

\* mutant: NE and NIN stay supported on a multi-key index
getSupportedQueries_NegatedKept(indexMetadata, dbQueries) ==
  sortBySpecificity(dbQueries,
    SelectSeq([i \in DOMAIN dbQueries |-> i],
      LAMBDA i : getFilterStatement(dbQueries[i]).comparator \in SupportedComparators))

\* positions of the index-usable queries, most specific first
getSupportedQueries(indexMetadata, dbQueries) ==
  LET all == SelectSeq([i \in DOMAIN dbQueries |-> i],
               LAMBDA i : getFilterStatement(dbQueries[i]).comparator \in SupportedComparators)
      kept == IF isMultiKeyIndex(indexMetadata)
              THEN SelectSeq(all, LAMBDA i : ~isNegatedQuery(dbQueries[i]))
              ELSE all
  IN sortBySpecificity(dbQueries, kept)

getFieldQueries(dbQueries, queries, fieldName) ==
  SelectSeq(queries, LAMBDA i : dbQueryToDottedField(dbQueries[i]) = fieldName)

\* 0 when no supported query targets the field
getMostSpecificQuery(dbQueries, queries, fieldInfo) ==
  LET fieldQueries == getFieldQueries(dbQueries, queries, fieldInfo[1])
  IN IF fieldQueries = <<>> THEN 0 ELSE fieldQueries[1]

\* cartesianProduct(...lists): the first list varies slowest
RECURSIVE cartesianProduct(_)
cartesianProduct(lists) ==
  IF lists = <<>> THEN << <<>> >>
  ELSE LET init == cartesianProduct(SubSeq(lists, 1, Len(lists) - 1))
           last == lists[Len(lists)]
           n == Len(last)
       IN [k \in 1..(Len(init) * n) |->
             Append(init[((k - 1) \div n) + 1], last[((k - 1) % n) + 1])]

\* the loop over keyFields, from field position i on; acc holds rangeStarts,
\* rangeEndings and usedQueries so far
RECURSIVE WalkKeyFields(_, _, _, _, _)

\* rangeStarts.push(result.rangeStarts); rangeEndings.push(result.rangeEndings)
PushRanges(acc, result) ==
  [rangeStarts |-> Append(acc.rangeStarts, result.rangeStarts),
   rangeEndings |-> Append(acc.rangeEndings, result.rangeEndings),
   used |-> result.used, threw |-> result.threw]

\* mutant: the loop goes on to the next field past a non-equality query too
WalkResolved_NoBreak(dbQueries, keyFields, supported, i, acc, qi, result) ==
  IF result.threw THEN [acc EXCEPT !.threw = TRUE, !.used = result.used]
  ELSE WalkKeyFields(dbQueries, keyFields, supported, i + 1, PushRanges(acc, result))

\* the loop body after resolveIndexFieldRanges: the loop goes on to the next
\* field only past an equality query
WalkResolved(dbQueries, keyFields, supported, i, acc, qi, result) ==
  IF result.threw THEN [acc EXCEPT !.threw = TRUE, !.used = result.used]
  ELSE IF ~isEqualityQuery(dbQueries[qi]) THEN PushRanges(acc, result)
  ELSE WalkKeyFields(dbQueries, keyFields, supported, i + 1, PushRanges(acc, result))

\* the loop body after getMostSpecificQuery: the loop ends at the first field
\* without a supported query
WalkQuery(dbQueries, keyFields, supported, i, acc, qi) ==
  IF qi = 0 THEN acc
  ELSE WalkResolved(dbQueries, keyFields, supported, i, acc, qi,
         resolveIndexFieldRanges(dbQueries, acc.used, qi, keyFields[i]))

WalkKeyFields(dbQueries, keyFields, supported, i, acc) ==
  IF i > Len(keyFields) THEN acc
  ELSE WalkQuery(dbQueries, keyFields, supported, i, acc,
         getMostSpecificQuery(dbQueries, supported, keyFields[i]))

\* mutant: the end boundaries of the leading fields are not replaced by
\* their start boundaries
rangesProduct_EndsNotPinned(w) ==
  LET rangeStartsProduct == cartesianProduct(w.rangeStarts)
      rangeEndingsProduct == cartesianProduct(w.rangeEndings)
  IN IF w.threw THEN [ranges |-> <<>>, used |-> w.used, threw |-> TRUE]
     ELSE IF Len(w.rangeStarts) = 0 THEN [ranges |-> <<>>, used |-> w.used, threw |-> FALSE]
     ELSE [ranges |-> [k \in DOMAIN rangeStartsProduct |->
                         [start |-> rangeStartsProduct[k], end |-> rangeEndingsProduct[k]]],
           used |-> w.used, threw |-> FALSE]

\* what getIndexRanges makes of the loop's result w: only the last field's
\* end boundary is kept, the leading ones are pinned to their starts, and
\* the ranges are the products of the boundaries, position by position
rangesProduct(w) ==
  LET n == Len(w.rangeStarts)
      rangeEndings == [i \in 1..n |-> IF i < n THEN w.rangeStarts[i] ELSE w.rangeEndings[i]]
      rangeStartsProduct == cartesianProduct(w.rangeStarts)
      rangeEndingsProduct == cartesianProduct(rangeEndings)
  IN IF w.threw THEN [ranges |-> <<>>, used |-> w.used, threw |-> TRUE]
     ELSE IF n = 0 THEN [ranges |-> <<>>, used |-> w.used, threw |-> FALSE]
     ELSE [ranges |-> [k \in DOMAIN rangeStartsProduct |->
                         [start |-> rangeStartsProduct[k], end |-> rangeEndingsProduct[k]]],
           used |-> w.used, threw |-> FALSE]

\* [ranges, used, threw]: the compiled ranges, context.usedQueries after
\* compilation, and whether resolution threw
getIndexRanges(indexMetadata, dbQueries) ==
  rangesProduct(
    WalkKeyFields(dbQueries, indexMetadata.keyFields,
                  getSupportedQueries(indexMetadata, dbQueries), 1,
                  [rangeStarts |-> <<>>, rangeEndings |-> <<>>, used |-> {}, threw |-> FALSE]))

(* ------------------------------ the store ----------------------------- *)
\* An index entry is its key <<keyPrefix, field values..., node id>>; the
\* entry's value is the node id, the last key component.
getIdentifier(entry) == entry[Len(entry)]

\* getRange of the ordered store: the keys from start (inclusive) to end
\* (exclusive) in key order, or downwards from start to end when reverse,
\* after dropping offset of them and keeping at most limit.
getRange(db, range) ==
  LET s == Flatten(range.start)
      e == Flatten(range.end)
      hit == IF range.reverse
             THEN {k \in db : LexLess(e, k) /\ LexLeq(k, s)}
             ELSE {k \in db : LexLeq(s, k) /\ LexLess(k, e)}
      ordered == IF range.reverse THEN Reverse(SortKeys(hit)) ELSE SortKeys(hit)
      rest == Drop(ordered, range.offset)
  IN IF range.limit = Undefined THEN rest ELSE Take(rest, range.limit)

\* getKeysCount of the store; whether the store applies limit to a count is
\* not fixed by its contract
getKeysCount(db, range, honoursLimit) ==
  Len(getRange(db, [range EXCEPT !.limit = IF honoursLimit THEN @ ELSE Undefined]))

\* the options object handed to the store: `limit ?? 1`, `offset ?? 0`
StoreOptions(range) ==
  [range EXCEPT !.limit = IF @ = Undefined THEN 1 ELSE @,
                !.offset = IF @ = Undefined THEN 0 ELSE @]

(* ---------------------------- scan executor --------------------------- *)
\* mutant: an applied IN filter counts like an applied EQ filter
needsDeduplication_InCountsAsEq(indexMetadata, dbQueries, used) ==
  IF ~isMultiKeyIndex(indexMetadata) THEN FALSE
  ELSE LET fieldsWithAppliedEq ==
             {dbQueryToDottedField(dbQueries[i]) :
                i \in {j \in used : isEqualityQuery(getFilterStatement(dbQueries[j]))}}
       IN \E fieldName \in indexMetadata.multiKeyFields : fieldName \notin fieldsWithAppliedEq

needsDeduplication(indexMetadata, dbQueries, used) ==
  IF ~isMultiKeyIndex(indexMetadata) THEN FALSE
  ELSE LET fieldsWithAppliedEq ==
             {dbQueryToDottedField(dbQueries[i]) :
                i \in {j \in used : getFilterStatement(dbQueries[j]).comparator = "EQ"}}
       IN \E fieldName \in indexMetadata.multiKeyFields : fieldName \notin fieldsWithAppliedEq

KeyPrefixed(indexMetadata, boundary) == << <<indexMetadata.keyPrefix>> >> \o boundary

\* mutant: with several ranges the offset is left on every range scan
performRangeScan_OffsetKept(a, used, rs) ==
  LET all == Len(a.dbQueries) = Cardinality(used)
      limit1 == IF all THEN a.limit ELSE Undefined
      offset1 == IF all THEN (IF a.skip = Undefined THEN 0 ELSE a.skip) ELSE 0
  IN [lmdbRanges |->
        [k \in DOMAIN rs |->
           IF ~a.reverse
           THEN [start |-> KeyPrefixed(a.indexMetadata, rs[k].start),
                 end |-> KeyPrefixed(a.indexMetadata, rs[k].end),
                 limit |-> limit1, offset |-> offset1, reverse |-> FALSE]
           ELSE [start |-> KeyPrefixed(a.indexMetadata, rs[k].end),
                 end |-> KeyPrefixed(a.indexMetadata, rs[k].start),
                 limit |-> limit1, offset |-> offset1, reverse |-> TRUE]],
      usedLimit |-> limit1,
      usedSkip |-> offset1]

\* mutant: the limit of a multi-key index is not inflated
performRangeScan_LimitNotInflated(a, used, rs) ==
  LET all == Len(a.dbQueries) = Cardinality(used)
      limit1 == IF all THEN a.limit ELSE Undefined
      offset1 == IF all THEN (IF a.skip = Undefined THEN 0 ELSE a.skip) ELSE 0
      limit2 == IF Len(rs) > 1
                THEN (IF limit1 # Undefined THEN offset1 + limit1 ELSE Undefined)
                ELSE limit1
      offset2 == IF Len(rs) > 1 THEN 0 ELSE offset1
  IN [lmdbRanges |->
        [k \in DOMAIN rs |->
           IF ~a.reverse
           THEN [start |-> KeyPrefixed(a.indexMetadata, rs[k].start),
                 end |-> KeyPrefixed(a.indexMetadata, rs[k].end),
                 limit |-> limit2, offset |-> offset2, reverse |-> FALSE]
           ELSE [start |-> KeyPrefixed(a.indexMetadata, rs[k].end),
                 end |-> KeyPrefixed(a.indexMetadata, rs[k].start),
                 limit |-> limit2, offset |-> offset2, reverse |-> TRUE]],
      usedLimit |-> limit2,
      usedSkip |-> offset2]

\* [lmdbRanges, usedLimit, usedSkip]
performRangeScan(a, used, rs) ==
  LET all == Len(a.dbQueries) = Cardinality(used)
      limit1 == IF all THEN a.limit ELSE Undefined
      offset1 == IF all THEN (IF a.skip = Undefined THEN 0 ELSE a.skip) ELSE 0
      limit2 == IF Len(rs) > 1
                THEN (IF limit1 # Undefined THEN offset1 + limit1 ELSE Undefined)
                ELSE limit1
      offset2 == IF Len(rs) > 1 THEN 0 ELSE offset1
      limit3 == IF /\ limit2 # Undefined /\ limit2 # 0
                   /\ isMultiKeyIndex(a.indexMetadata)
                   /\ needsDeduplication(a.indexMetadata, a.dbQueries, used)
                THEN limit2 * a.indexMetadata.maxKeysPerItem
                ELSE limit2
  IN [lmdbRanges |->
        [k \in DOMAIN rs |->
           IF ~a.reverse
           THEN [start |-> KeyPrefixed(a.indexMetadata, rs[k].start),
                 end |-> KeyPrefixed(a.indexMetadata, rs[k].end),
                 limit |-> limit3, offset |-> offset2, reverse |-> FALSE]
           ELSE [start |-> KeyPrefixed(a.indexMetadata, rs[k].end),
                 end |-> KeyPrefixed(a.indexMetadata, rs[k].start),
                 limit |-> limit3, offset |-> offset2, reverse |-> TRUE]],
      usedLimit |-> limit3,
      usedSkip |-> offset2]

\* [lmdbRanges, usedLimit, usedSkip]; the context keeps its initial
\* usedLimit and usedSkip
performFullScan(a) ==
  LET keyPrefix == a.indexMetadata.keyPrefix
      start1 == << <<keyPrefix>>, getValueEdgeAfter(undefinedSymbol) >>
      end1 == << getValueEdgeAfter(keyPrefix) >>
      start2 == << <<keyPrefix>>, <<Null>> >>
      end2 == start1
      mk(st, en) == IF ~a.reverse
                    THEN [start |-> st, end |-> en, limit |-> Undefined,
                          offset |-> Undefined, reverse |-> FALSE]
                    ELSE [start |-> en, end |-> st, limit |-> Undefined,
                          offset |-> Undefined, reverse |-> TRUE]
      undefinedToEnd == mk(start1, end1)
      topToUndefined == mk(start2, end2)
  IN [lmdbRanges |-> IF ~a.reverse THEN <<undefinedToEnd, topToUndefined>>
                     ELSE <<topToUndefined, undefinedToEnd>>,
      usedLimit |-> Undefined,
      usedSkip |-> 0]

(* --------------------- residual filter, deduplicator ------------------ *)
\* position of fieldName in the index key (keyPrefix is position 1), 0 if absent
positionInKey(indexMetadata, fieldName) ==
  LET at == {i \in DOMAIN indexMetadata.keyFields : indexMetadata.keyFields[i][1] = fieldName}
  IN IF at = {} THEN 0 ELSE (CHOOSE i \in at : TRUE) + 1

\* mutant: NE and NIN are applied to the entries of a multi-key index too
filtersToApplyOf_NegatedKept(indexMetadata, dbQueries, used) ==
  {i \in DOMAIN dbQueries :
     /\ positionInKey(indexMetadata, dbQueryToDottedField(dbQueries[i])) # 0
     /\ i \notin used}

\* mutant: NE and NIN are left out of residual filtering on every index
filtersToApplyOf_NegatedSkipped(indexMetadata, dbQueries, used) ==
  {i \in DOMAIN dbQueries :
     /\ positionInKey(indexMetadata, dbQueryToDottedField(dbQueries[i])) # 0
     /\ i \notin used
     /\ ~isNegatedQuery(dbQueries[i])}

\* the positions of the queries narrowResultsIfPossible applies (and marks used)
filtersToApplyOf(indexMetadata, dbQueries, used) ==
  {i \in DOMAIN dbQueries :
     /\ positionInKey(indexMetadata, dbQueryToDottedField(dbQueries[i])) # 0
     /\ i \notin used
     /\ ~(isMultiKeyIndex(indexMetadata) /\ isNegatedQuery(dbQueries[i]))}

\* does a key component (undefinedSymbol read as undefined) satisfy the filter
matchesFilter(filter, value) ==
  LET isNil(x) == x \in {Null, undefinedSymbol}
      eq(fv) == IF fv = Null THEN isNil(value) ELSE value = fv
      c == filter.comparator
      fv1 == filter.value[1]
  IN CASE c = "EQ" -> eq(fv1)
       [] c = "NE" -> ~eq(fv1)
       [] c = "IN" -> \E k \in DOMAIN filter.value : eq(filter.value[k])
       [] c = "NIN" -> ~\E k \in DOMAIN filter.value : eq(filter.value[k])
       [] c = "GT" -> ~isNil(value) /\ fv1 # Null /\ value > fv1
       [] c = "GTE" -> IF fv1 = Null THEN isNil(value) ELSE ~isNil(value) /\ value >= fv1
       [] c = "LT" -> ~isNil(value) /\ fv1 # Null /\ value < fv1
       [] c = "LTE" -> IF fv1 = Null THEN isNil(value) ELSE ~isNil(value) /\ value <= fv1
       [] OTHER -> FALSE

narrowKeeps(indexMetadata, dbQueries, toApply, key) ==
  \A i \in toApply :
     matchesFilter(getFilterStatement(dbQueries[i]),
                   key[positionInKey(indexMetadata, dbQueryToDottedField(dbQueries[i]))])

\* GatsbyIterable.deduplicate(getIdentifier): entries whose identifier was
\* not yielded before, `seen` being the identifiers already yielded
RECURSIVE deduplicate(_, _)
deduplicate(es, seen) ==
  IF es = <<>> THEN <<>>
  ELSE IF getIdentifier(Head(es)) \in seen THEN deduplicate(Tail(es), seen)
  ELSE <<Head(es)>> \o deduplicate(Tail(es), seen \cup {getIdentifier(Head(es))})

(* ------------------------------ operations ---------------------------- *)
createFilteringContext ==
  /\ pc = "idle"
  /\ ranges = <<>>
  /\ usedQueries = {}
  /\ usedLimit = Undefined
  /\ usedSkip = 0
  /\ lmdbRanges = <<>>
  /\ opened = 0
  /\ scanned = <<>>
  /\ entries = <<>>
  /\ filtersToApply = {}
  /\ dedup = FALSE
  /\ count = Undefined
  /\ keysCountCalls = <<>>

\* the exported getIndexRanges(context)
GetIndexRanges ==
  /\ pc = "idle"
  /\ \E r \in {getIndexRanges(args.indexMetadata, args.dbQueries)} :
        /\ pc' = IF r.threw THEN "ranges_threw" ELSE "ranges"
        /\ ranges' = r.ranges
        /\ usedQueries' = r.used
  /\ UNCHANGED <<args, store, usedLimit, usedSkip, lmdbRanges, opened, scanned,
                 entries, filtersToApply, dedup, count, keysCountCalls>>

\* the context filterUsingIndex leaves and the plan of the sequence it
\* returns, given the compiled ranges r, the scan set up for them and the
\* filters narrowResultsIfPossible applies
filterPlan(a, r, scan, toApply) ==
  [threw |-> r.threw,
   ranges |-> r.ranges,
   usedQueries |-> IF r.threw THEN r.used ELSE r.used \cup toApply,
   usedLimit |-> scan.usedLimit,
   usedSkip |-> scan.usedSkip,
   lmdbRanges |-> scan.lmdbRanges,
   filtersToApply |-> toApply,
   dedup |-> (isMultiKeyIndex(a.indexMetadata)
              /\ needsDeduplication(a.indexMetadata, a.dbQueries, r.used \cup toApply))]

\* filterUsingIndex after range compilation: a range scan when there are
\* ranges and a full scan otherwise, then residual filtering when some
\* filter was not consumed
filterRanges(a, r) ==
  filterPlan(a, r,
    IF Len(r.ranges) > 0 THEN performRangeScan(a, r.used, r.ranges) ELSE performFullScan(a),
    IF Cardinality(r.used) # Len(a.dbQueries)
    THEN filtersToApplyOf(a.indexMetadata, a.dbQueries, r.used)
    ELSE {})

\* filterUsingIndex(args) up to returning the lazy sequence: the context it
\* leaves and the plan of the sequence (store ranges, residual filters, dedup)
filterUsingIndex(a) ==
  filterRanges(a, getIndexRanges(a.indexMetadata, a.dbQueries))

\* what the returned sequence yields of the store scan's entries raw, soFar
\* being what it has yielded before
narrowed(a, raw, toApply, dd, soFar) ==
  IF dd
  THEN deduplicate(SelectSeq(raw, LAMBDA e :
                     narrowKeeps(a.indexMetadata, a.dbQueries, toApply, e)),
                   {getIdentifier(soFar[k]) : k \in DOMAIN soFar})
  ELSE SelectSeq(raw, LAMBDA e : narrowKeeps(a.indexMetadata, a.dbQueries, toApply, e))

\* one iteration of traverseRanges seen through the residual filter and the
\* deduplicator: what the returned sequence yields of one store range
traverseRange(a, db, range, toApply, dd, soFar) ==
  narrowed(a, getRange(db, StoreOptions(range)), toApply, dd, soFar)

\* the returned sequence consumed to its end
RECURSIVE traverseAll(_, _, _, _, _, _)
traverseAll(a, db, rs, toApply, dd, soFar) ==
  IF rs = <<>> THEN soFar
  ELSE traverseAll(a, db, Tail(rs), toApply, dd,
                   soFar \o traverseRange(a, db, Head(rs), toApply, dd, soFar))

FilterUsingIndex ==
  /\ pc = "idle"
  /\ \E f \in {filterUsingIndex(args)} :
        IF f.threw
        THEN /\ pc' = "filter_threw"
             /\ usedQueries' = f.usedQueries
             /\ UNCHANGED <<ranges, usedLimit, usedSkip, lmdbRanges, filtersToApply, dedup>>
        ELSE /\ pc' = "filter"
             /\ ranges' = f.ranges
             /\ usedQueries' = f.usedQueries
             /\ usedLimit' = f.usedLimit
             /\ usedSkip' = f.usedSkip
             /\ lmdbRanges' = f.lmdbRanges
             /\ filtersToApply' = f.filtersToApply
             /\ dedup' = f.dedup
  /\ UNCHANGED <<args, store, opened, scanned, entries, count, keysCountCalls>>

\* mutant: the consumer's first pull opens every range
TraverseRanges_AllAtOnce ==
  /\ pc = "filter"
  /\ opened < Len(lmdbRanges)
  /\ \E raw \in {traverseAll(args, store, lmdbRanges, {}, FALSE, <<>>)} :
        /\ opened' = Len(lmdbRanges)
        /\ scanned' = raw
        /\ entries' = narrowed(args, raw, filtersToApply, dedup, <<>>)
  /\ UNCHANGED <<args, store, pc, ranges, usedQueries, usedLimit, usedSkip,
                 lmdbRanges, filtersToApply, dedup, count, keysCountCalls>>

\* the consumer drains the next range of traverseRanges
TraverseRanges ==
  /\ pc = "filter"
  /\ opened < Len(lmdbRanges)
  /\ \E raw \in {getRange(store, StoreOptions(lmdbRanges[opened + 1]))} :
        /\ opened' = opened + 1
        /\ scanned' = scanned \o raw
        /\ entries' = entries \o narrowed(args, raw, filtersToApply, dedup, entries)
  /\ UNCHANGED <<args, store, pc, ranges, usedQueries, usedLimit, usedSkip,
                 lmdbRanges, filtersToApply, dedup, count, keysCountCalls>>

CountRange(st, en) ==
  [start |-> st, end |-> en, limit |-> Undefined, offset |-> Undefined, reverse |-> FALSE]

\* the ranges countUsingIndexOnly counts
CountRanges(indexMetadata, rs) ==
  IF Len(rs) = 0
  THEN << CountRange(<< <<indexMetadata.keyPrefix>> >>,
                     << getValueEdgeAfter(indexMetadata.keyPrefix) >>) >>
  ELSE [k \in DOMAIN rs |-> CountRange(KeyPrefixed(indexMetadata, rs[k].start),
                                       KeyPrefixed(indexMetadata, rs[k].end))]

\* the options of the getKeysCount calls: `limit ?? 1`, `offset ?? 0`
CountCalls(countRanges) == [k \in DOMAIN countRanges |-> StoreOptions(countRanges[k])]

RECURSIVE SumSeq(_)
SumSeq(s) == IF s = <<>> THEN 0 ELSE Head(s) + SumSeq(Tail(s))

\* mutant: the count is taken although some filter was not consumed
CountUsingIndexOnly_ResidualIgnored ==
  /\ pc = "idle"
  /\ \E r \in {getIndexRanges(args.indexMetadata, args.dbQueries)} :
        IF \/ r.threw
           \/ (isMultiKeyIndex(args.indexMetadata)
               /\ needsDeduplication(args.indexMetadata, args.dbQueries, r.used))
        THEN /\ pc' = "count_threw"
             /\ usedQueries' = r.used
             /\ UNCHANGED <<ranges, count, keysCountCalls>>
        ELSE \E calls \in {CountCalls(CountRanges(args.indexMetadata, r.ranges))} :
             /\ pc' = "count"
             /\ ranges' = r.ranges
             /\ usedQueries' = r.used
             /\ keysCountCalls' = calls
             /\ \E honoursLimit \in BOOLEAN :
                  count' = SumSeq([k \in DOMAIN calls |->
                                     getKeysCount(store, calls[k], honoursLimit)])
  /\ UNCHANGED <<args, store, usedLimit, usedSkip, lmdbRanges, opened, scanned,
                 entries, filtersToApply, dedup>>

\* countUsingIndexOnly(args)
CountUsingIndexOnly ==
  /\ pc = "idle"
  /\ \E r \in {getIndexRanges(args.indexMetadata, args.dbQueries)} :
        IF \/ r.threw
           \/ Cardinality(r.used) # Len(args.dbQueries)
           \/ (isMultiKeyIndex(args.indexMetadata)
               /\ needsDeduplication(args.indexMetadata, args.dbQueries, r.used))
        THEN /\ pc' = "count_threw"
             /\ usedQueries' = r.used
             /\ UNCHANGED <<ranges, count, keysCountCalls>>
        ELSE \E calls \in {CountCalls(CountRanges(args.indexMetadata, r.ranges))} :
             /\ pc' = "count"
             /\ ranges' = r.ranges
             /\ usedQueries' = r.used
             /\ keysCountCalls' = calls
             /\ \E honoursLimit \in BOOLEAN :
                  count' = SumSeq([k \in DOMAIN calls |->
                                     getKeysCount(store, calls[k], honoursLimit)])
  /\ UNCHANGED <<args, store, usedLimit, usedSkip, lmdbRanges, opened, scanned,
                 entries, filtersToApply, dedup>>

Next ==
  \/ GetIndexRanges
  \/ FilterUsingIndex
  \/ TraverseRanges
  \/ CountUsingIndexOnly

(* ------------------------------- inputs ------------------------------- *)
\* this index's keyPrefix, and the prefix of another index in the same store
KeyPrefix == 1
OtherKeyPrefix == 2
OtherIndexKeys == {<<OtherKeyPrefix, 1, 1>>}

\* the keys create-index writes for records 1..Len(recs); recs[i][f] is the
\* set of values record i contributes for key field f (one value, or one per
\* array element for a multi-key field)
RECURSIVE TuplesOf(_)
TuplesOf(sets) ==
  IF sets = <<>> THEN {<<>>}
  ELSE {<<v>> \o t : v \in Head(sets), t \in TuplesOf(Tail(sets))}

IndexKeys(recs) ==
  UNION {{<<KeyPrefix>> \o t \o <<i>> : t \in TuplesOf(recs[i])} : i \in DOMAIN recs}

MaxOf(S) == CHOOSE x \in S : \A y \in S : y <= x

\* stats.maxKeysPerItem of the index
maxKeysPerItemOf(db) ==
  LET own == {k \in db : k[1] = KeyPrefix}
      ids == {getIdentifier(k) : k \in own}
  IN IF ids = {} THEN 1
     ELSE MaxOf({Cardinality({k \in own : getIdentifier(k) = i}) : i \in ids})

IndexMetadata(keyFields, multiKeyFields, db) ==
  [keyFields |-> keyFields, multiKeyFields |-> multiKeyFields,
   keyPrefix |-> KeyPrefix, maxKeysPerItem |-> maxKeysPerItemOf(db)]

\* an operand array holding exactly the values of S: listed downwards, the
\* largest repeated at the end
ArrayOf(S) ==
  IF S = {} THEN <<>>
  ELSE Reverse(SortAsc(S)) \o (IF Cardinality(S) > 1 THEN <<MaxOf(S)>> ELSE <<>>)

Limits == {Undefined} \cup (0..MaxLimit)
Skips == {Undefined} \cup (0..MaxSkip)

\* single-field, single-valued records: field values in non-decreasing order
SingleRecords ==
  {r \in [1..MaxRecords -> StoreVals] : \A i \in 1..(MaxRecords - 1) : r[i] <= r[i + 1]}

SingleStores ==
  {IndexKeys([i \in 1..MaxRecords |-> << {r[i]} >>]) \cup OtherIndexKeys : r \in SingleRecords}

InitWith(dbs, keyFieldss, multiKeyFieldss, queries, limits, skips) ==
  /\ store \in dbs
  /\ \E kf \in keyFieldss, mk \in multiKeyFieldss, q \in queries,
        l \in limits, sk \in skips, rv \in BOOLEAN :
       args = [dbQueries |-> q, indexMetadata |-> IndexMetadata(kf, mk, store),
               limit |-> l, skip |-> sk, reverse |-> rv]
  /\ createFilteringContext

(* Scans of a single-field index without multi-key fields over every      *)
(* store: no filter, or one EQ, IN or NIN filter; no limit, no skip.      *)
ScanQueries ==
  {<<>>}
  \cup {<<Statement("a", "EQ", v)>> : v \in OperandVals}
  \cup {<<ArrStatement("a", c, ArrayOf(S))>> : c \in {"IN", "NIN"}, S \in SUBSET OperandVals}

SingleKeyFields == {<< <<"a", 1>> >>, << <<"a", -1>> >>}

InitScan ==
  InitWith(SingleStores, SingleKeyFields, {{}}, ScanQueries, {Undefined}, {Undefined})

SpecScan == InitScan /\ [][Next]_vars

(* Range compilation on a single-field index, with or without a multi-key *)
(* field: one range filter, a lower and an upper range filter in either    *)
(* order, or one EQ, IN or NIN filter.                                     *)
LowerStatements == {Statement("a", c, v) : c \in {"GT", "GTE"}, v \in OperandVals}
UpperStatements == {Statement("a", c, v) : c \in {"LT", "LTE"}, v \in OperandVals}

RangeQueries ==
  {<<q>> : q \in LowerStatements \cup UpperStatements}
  \cup {<<lo, up>> : lo \in LowerStatements, up \in UpperStatements}
  \cup {<<up, lo>> : lo \in LowerStatements, up \in UpperStatements}

\* the stores whose first record holds null and whose last holds the largest value
FewStores ==
  {IndexKeys([i \in 1..MaxRecords |-> << {r[i]} >>]) \cup OtherIndexKeys :
     r \in {x \in SingleRecords : x[1] = Null /\ x[MaxRecords] = MaxStoreVal}}

InitRanges ==
  InitWith(FewStores, SingleKeyFields, {{}, {"a"}}, RangeQueries \cup ScanQueries,
           {Undefined}, {Undefined})

SpecRanges == InitRanges /\ [][Next]_vars

(* A compound index on (a, b) without multi-key fields: an optional       *)
(* filter on a and none, one or two filters on b, in every order, with    *)
(* every limit and skip.                                                  *)
Perms(S) ==
  {q \in [1..Cardinality(S) -> S] : \A i, j \in 1..Cardinality(S) : q[i] = q[j] => i = j}

CompoundAFilters ==
  {{}} \cup {{Statement("a", "EQ", v)} : v \in 1..2}
  \cup {{ArrStatement("a", "IN", <<2, 1>>)}, {Statement("a", "GTE", 1)}}

CompoundBFilters ==
  {{}}
  \cup {{Statement("b", c, v)} : c \in {"EQ", "GTE", "LT"}, v \in DefinedVals}
  \cup {{Statement("b", "GTE", v), Statement("b", "LT", w)} : v, w \in DefinedVals}

CompoundQueries == UNION {Perms(fa \cup fb) : fa \in CompoundAFilters, fb \in CompoundBFilters}

CompoundKeyFields ==
  {<< <<"a", 1>>, <<"b", 1>> >>, << <<"a", -1>>, <<"b", -1>> >>}

\* record i holds a = 1 or 2 in turn and b = 1..MaxStoreVal in turn
CompoundStores ==
  {IndexKeys([i \in 1..MaxRecords |->
                << {((i + o) % 2) + 1}, {(i % MaxStoreVal) + 1} >>]) \cup OtherIndexKeys :
     o \in 0..1}

InitCompound ==
  InitWith(CompoundStores, CompoundKeyFields, {{}}, CompoundQueries, Limits, Skips)

SpecCompound == InitCompound /\ [][Next]_vars

(* Limit and skip pushdown on a single-field index without multi-key     *)
(* fields: the scan queries, alone or followed by a filter on a field the *)
(* index does not hold, with every limit and skip.                        *)
LimitQueries ==
  ScanQueries
  \cup {<<ArrStatement("a", "IN", ArrayOf(S)), Statement("c", "EQ", 1)>> :
          S \in SUBSET OperandVals}

\* the stores holding null, the undefined sentinel and the largest value
LimitStores ==
  {IndexKeys([i \in 1..MaxRecords |-> << {r[i]} >>]) \cup OtherIndexKeys :
     r \in {x \in SingleRecords : x[1] = Null /\ x[2] = undefinedSymbol
                                  /\ x[MaxRecords] = MaxStoreVal}}

InitLimit ==
  InitWith(LimitStores, SingleKeyFields, {{}}, LimitQueries, Limits, Skips)

SpecLimit == InitLimit /\ [][Next]_vars

(* A single-field index whose field is multi-key (records holding one or *)
(* two array elements), and the same queries on an index without          *)
(* multi-key fields: equality, IN, range and negated filters, alone or    *)
(* paired with a negated filter, a second filter on the field or a filter *)
(* on a field the index does not hold.                                    *)
SmallSets == {S \in SUBSET DefinedVals : Cardinality(S) \in 1..2}

MultiLeading ==
  {Statement("a", "EQ", v) : v \in OperandVals}
  \cup {ArrStatement("a", "IN", ArrayOf(S)) : S \in SmallSets}
  \cup {Statement("a", "GTE", v) : v \in DefinedVals}

MultiNegated ==
  {Statement("a", "NE", v) : v \in OperandVals}
  \cup {ArrStatement("a", "NIN", ArrayOf(S)) : S \in SmallSets}

MultiQueries ==
  {<<>>}
  \cup {<<q>> : q \in MultiLeading \cup MultiNegated}
  \cup {<<q, Statement("a", "NE", 1)>> : q \in MultiLeading}
  \cup {<<q, Statement("c", "EQ", 1)>> : q \in MultiLeading}
  \cup {<<Statement("a", "NE", 1), Statement("a", "GTE", 1)>>,
        <<Statement("a", "EQ", 1), Statement("a", "EQ", 2)>>,
        <<Statement("a", "GTE", 1), Statement("a", "GTE", 2)>>}

\* the arrays a record can hold in the multi-key field
ArrayValues == {S \in SUBSET (1..MaxStoreVal) : Cardinality(S) \in 1..2}

MultiStores ==
  {IndexKeys([i \in 1..(MaxRecords - 1) |-> << r[i] >>]) \cup OtherIndexKeys :
     r \in [1..(MaxRecords - 1) -> ArrayValues]}

InitMulti ==
  \/ InitWith(MultiStores, {<< <<"a", 1>> >>}, {{"a"}}, MultiQueries,
              {Undefined, MaxLimit}, {Undefined})
  \/ InitWith(FewStores, {<< <<"a", 1>> >>}, {{}}, MultiQueries,
              {Undefined, MaxLimit}, {Undefined})

SpecMulti == InitMulti /\ [][Next]_vars

(* ------------------------- claims: common terms ----------------------- *)
OwnKeys == {k \in store : k[1] = args.indexMetadata.keyPrefix}

SingleFieldIndex == Len(args.indexMetadata.keyFields) = 1
NonMultiKey == args.indexMetadata.multiKeyFields = {}
NoLimitNoSkip == args.limit = Undefined /\ args.skip = Undefined

\* filterUsingIndex has returned and its sequence has been consumed to the end
Drained == pc = "filter" /\ opened = Len(lmdbRanges)

NoDuplicates(es) == \A i, j \in DOMAIN es : es[i] = es[j] => i = j

Ascending(es) == \A i, j \in DOMAIN es : i < j => LexLeq(es[i], es[j])
Descending(es) == \A i, j \in DOMAIN es : i < j => LexLeq(es[j], es[i])

\* does an index key (without its keyPrefix) lie inside a compiled range
Inside(key, range) ==
  LexLeq(Flatten(range.start), key) /\ LexLess(key, Flatten(range.end))

InsideAny(key, rs) == \E k \in DOMAIN rs : Inside(key, rs[k])

\* the getRange calls issued so far, as handed to the store
GetRangeCalls == [k \in 1..opened |-> StoreOptions(lmdbRanges[k])]

\* the filters range compilation consumed (before residual filtering)
CompiledQueries == usedQueries \ filtersToApply

RequestedSkip == IF args.skip = Undefined THEN 0 ELSE args.skip

\* every key a single-field index can hold, without the keyPrefix
SingleFieldKeys == {<<v, id>> : v \in KeyVals, id \in 1..MaxRecords}

(* ------------------------------- C1 ----------------------------------- *)
SingleEqQuery ==
  /\ Len(args.dbQueries) = 1
  /\ args.dbQueries[1].comparator = "EQ"
  /\ ~args.dbQueries[1].isArray
  /\ args.dbQueries[1].field = args.indexMetadata.keyFields[1][1]

EqMatches(k, v) == IF v = Null THEN k[2] \in {Null, undefinedSymbol} ELSE k[2] = v

\* C1: on a single-field index without multi-key fields, the single filter
\* {field: {eq: v}} for a value v present in the index, with no limit and no
\* skip, yields exactly the entries whose value equals v (for v = null the
\* entries holding null or the undefined sentinel), however many there are.
C1_EqualityRoundTrip ==
  (/\ Drained /\ SingleFieldIndex /\ NonMultiKey /\ NoLimitNoSkip /\ SingleEqQuery
   /\ \E k \in OwnKeys : k[2] = args.dbQueries[1].value[1])
  => /\ SeqRange(entries) = {k \in OwnKeys : EqMatches(k, args.dbQueries[1].value[1])}
     /\ NoDuplicates(entries)

(* ------------------------------- C2 ----------------------------------- *)
GteLtQuery(x, y) ==
  \/ args.dbQueries = <<Statement("a", "GTE", x), Statement("a", "LT", y)>>
  \/ args.dbQueries = <<Statement("a", "LT", y), Statement("a", "GTE", x)>>

\* C2: on a single-field index the filters {gte: x} and {lt: y} with non-null
\* x < y compile to one range with start x and end y, and a key lies inside
\* it exactly when its field value v satisfies x <= v < y.
C2_RangeCorrectness ==
  \A x, y \in DefinedVals :
    (pc = "ranges" /\ SingleFieldIndex /\ x < y /\ GteLtQuery(x, y))
    => /\ Len(ranges) = 1
       /\ ranges[1].start = << <<x>> >>
       /\ ranges[1].end = << <<y>> >>
       /\ \A key \in SingleFieldKeys :
            Inside(key, ranges[1]) <=> (x <= key[1] /\ key[1] < y)

C2_Witness ==
  /\ pc = "ranges" /\ SingleFieldIndex /\ GteLtQuery(1, 3)
  /\ Len(ranges) = 1
  /\ Inside(<<1, 1>>, ranges[1]) /\ Inside(<<2, 1>>, ranges[1])
  /\ ~Inside(<<3, 1>>, ranges[1])

(* ------------------------------- C3 ----------------------------------- *)
\* the set S of a single {a: {nin: S}} query
NinOperand == SeqRange(args.dbQueries[1].value)

InRangesOf(S) ==
  getIndexRanges(args.indexMetadata, <<ArrStatement("a", "IN", ArrayOf(S))>>).ranges

\* a key value is excluded by S; null in S stands for the undefined sentinel too
InOperand(v, S) == v \in S \/ (v = undefinedSymbol /\ Null \in S)

\* C3: on a single-field index without multi-key fields, for either sort
\* direction, the ranges of {in: S} and of {nin: S} cover disjoint sets of
\* keys whose union is every key, and the NIN ranges cover exactly the keys
\* whose value is not in S.
C3_InNinComplement ==
  (/\ pc = "ranges" /\ SingleFieldIndex /\ NonMultiKey
   /\ Len(args.dbQueries) = 1 /\ args.dbQueries[1].comparator = "NIN")
  => \A key \in SingleFieldKeys :
       /\ InsideAny(key, ranges) <=> ~InsideAny(key, InRangesOf(NinOperand))
       /\ InsideAny(key, ranges) <=> ~InOperand(key[1], NinOperand)

(* ------------------------------- C4 ----------------------------------- *)
EqGteLtQuery(v, t1, t2) ==
  args.dbQueries \in Perms({Statement("a", "EQ", v), Statement("b", "GTE", t1),
                            Statement("b", "LT", t2)})

AscAscIndex == args.indexMetadata.keyFields = << <<"a", 1>>, <<"b", 1>> >>

\* C4: on an index (a asc, b asc) without multi-key fields, the query
\* {a eq v, b gte t1, b lt t2} compiles to exactly one range, start <<v, t1>>
\* and end <<v, t2>>; after filterUsingIndex usedQueries holds all three
\* filters, usedLimit is the caller's limit and usedSkip the caller's skip
\* (0 when not given).
C4_CompoundScenario ==
  \A v, t1, t2 \in DefinedVals :
    (AscAscIndex /\ NonMultiKey /\ EqGteLtQuery(v, t1, t2))
    => /\ pc \in {"ranges", "filter"}
            => ranges = << [start |-> << <<v>>, <<t1>> >>, end |-> << <<v>>, <<t2>> >>] >>
       /\ pc = "filter"
            => /\ usedQueries = {1, 2, 3}
               /\ usedLimit = args.limit
               /\ usedSkip = IF args.skip = Undefined THEN 0 ELSE args.skip

C4_Witness ==
  /\ pc = "filter" /\ AscAscIndex /\ NonMultiKey /\ EqGteLtQuery(2, 1, 3)
  /\ args.limit = MaxLimit /\ args.skip = MaxSkip
  /\ Len(ranges) = 1 /\ usedLimit = MaxLimit /\ usedSkip = MaxSkip

(* ------------------------------- C5 ----------------------------------- *)
MultiRangeAllConsumed ==
  /\ pc = "filter" /\ NonMultiKey
  /\ Len(ranges) > 1
  /\ CompiledQueries = DOMAIN args.dbQueries

\* limit S+L and offset 0 pushed to every scan and reported; nothing pushed
\* when no limit was requested
CollapsedPushdown ==
  /\ usedSkip = 0
  /\ usedLimit = IF args.limit = Undefined THEN Undefined ELSE RequestedSkip + args.limit
  /\ args.limit # Undefined
       => \A k \in DOMAIN GetRangeCalls :
            /\ GetRangeCalls[k].limit = RequestedSkip + args.limit
            /\ GetRangeCalls[k].offset = 0

\* the ranges start at pairwise different values, in the field's sort order
StartsInSortOrder(rs) ==
  \A i, j \in DOMAIN rs :
    i < j => IF args.indexMetadata.keyFields[1][2] = 1
             THEN rs[i].start[1][1] < rs[j].start[1][1]
             ELSE rs[i].start[1][1] > rs[j].start[1][1]

\* one range [v, edge after v) per distinct value of S, in sort order
OnePerOperand(rs, S) ==
  /\ Len(rs) = Cardinality(S)
  /\ \A k \in DOMAIN rs :
       /\ rs[k].start[1][1] \in S
       /\ rs[k].start = << <<rs[k].start[1][1]>> >>
       /\ rs[k].end = << <<rs[k].start[1][1], BinaryInfinityPositive>> >>
  /\ StartsInSortOrder(rs)

FullyMaterialized ==
  LET a == [args EXCEPT !.limit = Undefined, !.skip = Undefined]
      f == filterUsingIndex(a)
  IN traverseAll(a, store, f.lmdbRanges, f.filtersToApply, f.dedup, <<>>)

\* C6: whenever countUsingIndexOnly returns, its result is the number of
\* entries of filterUsingIndex(...).entries materialized fully for the same
\* arguments without limit and skip (the empty filter list included).
C6_CountConsistency ==
  pc = "count" => count = Len(FullyMaterialized)

(* ------------------------------- C10 ---------------------------------- *)
\* C10: the concatenated entries of a ranged scan are in non-decreasing key
\* order when reverse is unset and in non-increasing key order when it is
\* set, across range boundaries too.
C10_GlobalOrdering ==
  (pc = "filter" /\ Len(ranges) > 0)
  => IF args.reverse THEN Descending(scanned) ELSE Ascending(scanned)

(* ------------------------------- C7 ----------------------------------- *)
\* some dbQuery is not in usedQueries
ResidualNeeded == \E i \in DOMAIN args.dbQueries : i \notin usedQueries

\* the index is multi-key and some multi-key field has no consumed EQ filter
DeduplicationNeeded ==
  \E f \in args.indexMetadata.multiKeyFields :
    ~\E i \in usedQueries : /\ args.dbQueries[i].field = f
                            /\ args.dbQueries[i].comparator = "EQ"

\* C7: countUsingIndexOnly throws, without any getKeysCount call, whenever
\* after range compilation some dbQuery is not in usedQueries or the index
\* is multi-key and some multi-key field has no consumed EQ filter; it
\* returns a count only when neither holds.
C7_CountRejects ==
  /\ (pc \in {"count", "count_threw"} /\ (ResidualNeeded \/ DeduplicationNeeded))
       => pc = "count_threw" /\ keysCountCalls = <<>>
  /\ pc = "count" => ~ResidualNeeded /\ ~DeduplicationNeeded /\ keysCountCalls # <<>>

C7_Witness ==
  /\ pc = "count_threw" /\ ResidualNeeded /\ ~DeduplicationNeeded /\ NonMultiKey
  /\ keysCountCalls = <<>>

(* ------------------------------- C8 ----------------------------------- *)
Negated(i) == args.dbQueries[i].comparator \in {"NE", "NIN"}

WithoutNegated == SelectSeq(args.dbQueries, LAMBDA q : q.comparator \notin {"NE", "NIN"})

\* C8: on a multi-key index an NE or NIN filter is never selected by
\* getSupportedQueries, contributes nothing to the compiled ranges (they are
\* the ranges of the query without its NE and NIN filters), is never applied
\* by residual filtering and is never in usedQueries.
C8_MultiKeyExclusionGuard ==
  ~NonMultiKey
  => /\ \A i \in usedQueries \cup filtersToApply : ~Negated(i)
     /\ \A k \in DOMAIN getSupportedQueries(args.indexMetadata, args.dbQueries) :
          ~Negated(getSupportedQueries(args.indexMetadata, args.dbQueries)[k])
     /\ pc \in {"ranges", "filter", "count"}
          => ranges = getIndexRanges(args.indexMetadata, WithoutNegated).ranges

C8_Witness ==
  /\ Drained /\ ~NonMultiKey
  /\ args.dbQueries = <<Statement("a", "GTE", 1), Statement("a", "NE", 1)>>
  /\ usedQueries = {1}
  /\ \E k \in DOMAIN entries : entries[k][2] = 1

(* ------------------------------- C9 ----------------------------------- *)
\* the scanned entries that pass the residual filters
Kept ==
  SelectSeq(scanned, LAMBDA e :
    narrowKeeps(args.indexMetadata, args.dbQueries, filtersToApply, e))

\* the positions of Kept at which a record identifier occurs for the first time
FirstOccurrences ==
  {p \in DOMAIN Kept : \A q \in 1..(p - 1) : Kept[q][Len(Kept[q])] # Kept[p][Len(Kept[p])]}

\* C9: on a multi-key index with a multi-key field that has no consumed
\* equality filter, no record identifier occurs twice in the sequence
\* filterUsingIndex returns, and the identifiers occur in the order of their
\* first occurrence in the underlying scan, also across several ranges.
C9_Deduplication ==
  (pc = "filter" /\ DeduplicationNeeded)
  => /\ \A i, j \in DOMAIN entries :
          entries[i][Len(entries[i])] = entries[j][Len(entries[j])] => i = j
     /\ Len(entries) = Cardinality(FirstOccurrences)
     /\ \A k \in DOMAIN entries : entries[k] = Kept[SortAsc(FirstOccurrences)[k]]

\* a record reached through two ranges of an IN filter is yielded once
C9_Witness ==
  /\ Drained /\ DeduplicationNeeded
  /\ Len(args.dbQueries) = 1 /\ args.dbQueries[1].comparator = "IN"
  /\ Len(scanned) = 2 /\ scanned[1][3] = scanned[2][3]
  /\ Len(entries) = 1

(* ------------------------------- C11 ---------------------------------- *)
\* start <= end under the key order, boundaries compared lexicographically
StartNotAfterEnd(range) == LexLeq(Flatten(range.start), Flatten(range.end))

\* C11: every range returned by getIndexRanges satisfies start <= end under
\* the order NegativeInfinity < null < undefined < defined values <
\* PositiveInfinity compared lexicographically, also for a lower bound paired
\* with a smaller upper bound and for NE/NIN or IN on a descending field.
C11_StartNotAfterEnd ==
  pc = "ranges" => \A k \in DOMAIN ranges : StartNotAfterEnd(ranges[k])

(* ------------------------------- C12 ---------------------------------- *)
\* no key lies inside two different ranges of rs
NonOverlapping(rs, keys) ==
  \A i, j \in DOMAIN rs :
    i # j => ~\E key \in keys : Inside(key, rs[i]) /\ Inside(key, rs[j])

\* C12: the ranges returned by one getIndexRanges call are pairwise
\* non-overlapping: no index key lies inside two different ranges of the
\* result, whatever the sort direction and the operands.
C12_NonOverlapping ==
  (pc = "ranges" /\ SingleFieldIndex) => NonOverlapping(ranges, SingleFieldKeys)

(* ------------------- inputs: a three-field index ---------------------- *)
(* An index on (a, b, c), with and without the multi-key field b: on each *)
(* field no filter, one equality, IN, range or negated filter, a lower   *)
(* with an upper bound, or a range filter before an equality filter; the *)
(* filters listed in key order or against it.                             *)
PrefixFieldFilters(f) ==
  {<<>>}
  \cup {<<Statement(f, "EQ", v)>> : v \in {Null, 1}}
  \cup {<<ArrStatement(f, "IN", ArrayOf({1, 2}))>>,
        <<Statement(f, "GTE", 1)>>,
        <<Statement(f, "NE", 1)>>,
        <<Statement(f, "GTE", 1), Statement(f, "LT", MaxVal)>>,
        <<Statement(f, "GTE", 2), Statement(f, "EQ", 1)>>}

PrefixQueries ==
  UNION {{qa \o qb \o qc, qc \o qb \o qa} :
           qa \in PrefixFieldFilters("a"), qb \in PrefixFieldFilters("b"),
           qc \in PrefixFieldFilters("c")}

PrefixKeyFields ==
  {<< <<"a", 1>>, <<"b", 1>>, <<"c", 1>> >>,
   << <<"a", -1>>, <<"b", -1>>, <<"c", 1>> >>,
   << <<"a", 1>>, <<"b", -1>>, <<"c", -1>> >>}

\* record i holds a = 1 or 2 in turn, b = 1..MaxStoreVal in turn and c = 1
PrefixStores ==
  {IndexKeys([i \in 1..MaxRecords |->
                << {(i % 2) + 1}, {(i % MaxStoreVal) + 1}, {1} >>]) \cup OtherIndexKeys}

InitPrefix ==
  InitWith(PrefixStores, PrefixKeyFields, {{}, {"b"}}, PrefixQueries,
           {Undefined}, {Undefined})

SpecPrefix == InitPrefix /\ [][Next]_vars

(* ------------------------------- C13 ---------------------------------- *)
\* an exact value: neither an edge-after pair nor an infinity sentinel
ExactValue(rangeValue) ==
  /\ Len(rangeValue) = 1
  /\ rangeValue[1] \notin {BinaryInfinityNegative, BinaryInfinityPositive}

\* C13: in every range returned by getIndexRanges start and end have the
\* same length n, every position before the last holds the same exact value
\* in start and in end, and only the last position may differ.
C13_PinnedPrefix ==
  pc = "ranges"
  => \A k \in DOMAIN ranges :
       /\ Len(ranges[k].start) = Len(ranges[k].end)
       /\ \A i \in 1..(Len(ranges[k].start) - 1) :
            /\ ranges[k].start[i] = ranges[k].end[i]
            /\ ExactValue(ranges[k].start[i])

\* three fields compiled, the first two by IN and by EQ null
C13_Witness ==
  /\ pc = "ranges" /\ Len(ranges) = 4
  /\ \A k \in DOMAIN ranges : Len(ranges[k].start) = 3
  /\ \E k \in DOMAIN ranges :
       /\ ranges[k].start[2] = <<undefinedSymbol>>
       /\ ranges[k].start[3] # ranges[k].end[3]

(* ------------------------------- C14 ---------------------------------- *)
\* usedQueries after the loop of getIndexRanges has handled the first i key fields
UsedAfter(i) ==
  WalkKeyFields(args.dbQueries, SubSeq(args.indexMetadata.keyFields, 1, i),
                getSupportedQueries(args.indexMetadata, args.dbQueries), 1,
                [rangeStarts |-> <<>>, rangeEndings |-> <<>>, used |-> {}, threw |-> FALSE]).used

\* field resolution keeps what the fields before it consumed
FieldStepsKeep ==
  \A i \in 1..Len(args.indexMetadata.keyFields) : UsedAfter(i - 1) \subseteq UsedAfter(i)

\* a complementary bound lookup keeps what was consumed before it and adds
\* only filters of the call
EdgeLookupsKeep ==
  \A i \in 1..Len(args.indexMetadata.keyFields) :
    \A predicate \in {"GTE", "GT", "LTE", "LT"} :
      /\ UsedAfter(i - 1)
           \subseteq resolveRangeEdge(args.dbQueries, UsedAfter(i - 1),
                                      args.indexMetadata.keyFields[i][1], predicate,
                                      ValueEdgesEQ).used
      /\ resolveRangeEdge(args.dbQueries, UsedAfter(i - 1),
                          args.indexMetadata.keyFields[i][1], predicate,
                          ValueEdgesEQ).used \subseteq DOMAIN args.dbQueries

\* what range compilation consumed stays consumed when the call returns
CompiledStayUsed ==
  pc # "idle" => UsedAfter(Len(args.indexMetadata.keyFields)) \subseteq usedQueries

\* C14: during one filterUsingIndex, countUsingIndexOnly or getIndexRanges
\* call usedQueries only grows (field resolution, complementary bound lookup
\* and residual filtering keep the filters consumed before), it stays a
\* subset of the call's dbQueries, and it is empty when the call starts.
C14_UsedQueriesGrow ==
  /\ [](/\ usedQueries \subseteq DOMAIN args.dbQueries
        /\ pc = "idle" => usedQueries = {}
        /\ FieldStepsKeep
        /\ EdgeLookupsKeep
        /\ CompiledStayUsed)
  /\ [][usedQueries \subseteq usedQueries']_vars

\* an EQ filter on a, a GTE filter on b with its complementary LT filter and
\* a filter on c left to residual filtering
C14_Witness ==
  /\ pc = "filter"
  /\ Cardinality(UsedAfter(1)) = 1
  /\ Cardinality(UsedAfter(2)) = 3
  /\ Cardinality(usedQueries) = 4
  /\ Cardinality(filtersToApply) = 1

(* ------------------- inputs: filter shapes ---------------------------- *)
(* Filters of every comparator with a scalar operand (null, a value or a  *)
(* non-null object) or, alone, with an array operand (empty, with a null  *)
(* or with an object among its elements), on the field of a single-field  *)
(* index or the leading field of an index on (a, b); alone, or paired in  *)
(* either order with a well- or ill-shaped filter on a, on b or on a      *)
(* field the index does not hold.                                         *)
AllComparators == {"EQ", "IN", "GTE", "LTE", "GT", "LT", "NIN", "NE"}

ShapeOperands == {Null, 1, ObjectValue}
ShapeArrays == {<<>>, <<1>>, <<MaxStoreVal, Null>>, <<1, ObjectValue>>}

ScalarShapes(f) == {Statement(f, c, v) : c \in AllComparators, v \in ShapeOperands}
ArrayShapes(f) == {ArrStatement(f, c, arr) : c \in AllComparators, arr \in ShapeArrays}

SecondShapes ==
  {Statement("a", "LT", ObjectValue), Statement("a", "GTE", 1),
   Statement("b", "EQ", ObjectValue), Statement("b", "IN", 1), Statement("b", "EQ", 1),
   Statement("c", "EQ", ObjectValue), Statement("c", "IN", 1)}

ShapeQueries ==
  {<<s>> : s \in ScalarShapes("a") \cup ArrayShapes("a")}
  \cup UNION {{<<s, t>>, <<t, s>>} :
                s \in ScalarShapes("a") \cup {ArrStatement("a", c, <<1, MaxStoreVal>>) : c \in {"IN", "NIN"}},
                t \in SecondShapes}

InitShape ==
  \/ InitWith(FewStores, SingleKeyFields, {{}, {"a"}}, ShapeQueries, {Undefined}, {Undefined})
  \/ InitWith(CompoundStores, {<< <<"a", 1>>, <<"b", 1>> >>}, {{}}, ShapeQueries,
              {Undefined}, {Undefined})

SpecShape == InitShape /\ [][Next]_vars

(* ------------------------------- C15 ---------------------------------- *)
\* the filter getMostSpecificQuery chooses for the leading key field (0: none)
ChosenForLeadingField ==
  getMostSpecificQuery(args.dbQueries,
                       getSupportedQueries(args.indexMetadata, args.dbQueries),
                       args.indexMetadata.keyFields[1])

\* an IN or NIN filter whose operand is not an array
NonArrayOperand(q) == q.comparator \in {"IN", "NIN"} /\ ~q.isArray

\* the operand, or an element of it, is a non-null object
ObjectOperand(q) == \E k \in DOMAIN q.value : q.value[k] = ObjectValue

\* C15: when the filter chosen for an index field is IN or NIN with an
\* operand that is not an array, or has an operand or operand element that
\* is a non-null object, resolution throws and no ranges are returned.
C15_ShapeErrors ==
  (/\ pc \in {"ranges", "ranges_threw"}
   /\ ChosenForLeadingField # 0
   /\ \/ NonArrayOperand(args.dbQueries[ChosenForLeadingField])
      \/ ObjectOperand(args.dbQueries[ChosenForLeadingField]))
  => pc = "ranges_threw" /\ ranges = <<>>

(* ------------------------------- C16 ---------------------------------- *)
\* an IN filter whose operand is not an array, or a filter with an object operand
BadShape(q) == (q.comparator = "IN" /\ ~q.isArray) \/ ObjectOperand(q)

\* C16: if any statement of dbQueries has a bad shape, filterUsingIndex
\* throws before returning a result, whichever field the statement targets
\* and whether or not it is selected for range compilation, and no entry is
\* emitted.
C16_ErrorsSurface ==
  (/\ pc \in {"filter", "filter_threw"}
   /\ \E i \in DOMAIN args.dbQueries : BadShape(args.dbQueries[i]))
  => pc = "filter_threw" /\ entries = <<>>

(* ------------------------------- C17 ---------------------------------- *)
\* range compilation returned and the filter chosen for the field of a
\* non-multi-key index is NE or NIN
NegatedCompiled ==
  /\ pc = "ranges" /\ NonMultiKey
  /\ ChosenForLeadingField # 0
  /\ args.dbQueries[ChosenForLeadingField].comparator \in {"NE", "NIN"}

\* the excluded set of the chosen NE or NIN filter
Excluded == SeqRange(args.dbQueries[ChosenForLeadingField].value)

\* one range more than there are excluded non-null values; each such value
\* closes one range and opens the next after it; the last range ends at
\* PositiveInfinity
GapsAroundExcluded ==
  /\ Len(ranges) = Cardinality(Excluded \ {Null}) + 1
  /\ \A v \in Excluded \ {Null} :
       \E k \in 1..(Len(ranges) - 1) :
         /\ ranges[k].end = << <<v>> >>
         /\ ranges[k + 1].start = << getValueEdgeAfter(v) >>
  /\ ranges[Len(ranges)].end = << <<BinaryInfinityPositive>> >>

\* C17 as stated: the first range starts at edgeAfter(undefined sentinel)
\* when the excluded set does not contain null and at NegativeInfinity when
\* it does; each excluded non-null value closes one range and opens the
\* next; the last range ends at PositiveInfinity.
C17_AsStated ==
  NegatedCompiled
  => /\ ranges[1].start = IF Null \in Excluded
                          THEN << <<BinaryInfinityNegative>> >>
                          ELSE << getValueEdgeAfter(undefinedSymbol) >>
     /\ GapsAroundExcluded

\* C17 amended: the first range starts at NegativeInfinity when the
\* excluded set does not contain null and at edgeAfter(undefined sentinel)
\* when it does; the rest as stated.
C17_NeNinBoundaries ==
  NegatedCompiled
  => /\ ranges[1].start = IF Null \in Excluded
                          THEN << getValueEdgeAfter(undefinedSymbol) >>
                          ELSE << <<BinaryInfinityNegative>> >>
     /\ GapsAroundExcluded

\* {nin: [MaxStoreVal, null]}: two ranges, the first from after undefined
C17_Witness ==
  /\ NegatedCompiled
  /\ Excluded = {Null, MaxStoreVal}
  /\ Len(ranges) = 2
  /\ ranges[1].start = << getValueEdgeAfter(undefinedSymbol) >>
  /\ ranges[2].start = << getValueEdgeAfter(MaxStoreVal) >>

(* ------------------------------- C18 ---------------------------------- *)
\* range compilation returned for the single filter {a: {c: v}}
SingleFilterCompiled(c, v) ==
  pc = "ranges" /\ args.dbQueries = <<Statement("a", c, v)>>

\* no key holding null or the undefined sentinel lies inside the range
ExcludesNullAndUndefined(range) ==
  \A key \in SingleFieldKeys : key[1] \in {Null, undefinedSymbol} => ~Inside(key, range)

\* C18: an LT or LTE filter with a non-null bound and no GT/GTE filter on the
\* field compiles to a range that starts at edgeAfter(undefined sentinel), so
\* that no key holding null or undefined lies inside it, and with a null
\* bound to a range that starts at NegativeInfinity; a GT or GTE filter with
\* no LT/LTE filter on the field ends at PositiveInfinity, or at
\* edgeAfter(null) when its bound is null.
C18_NullExclusion ==
  \A v \in OperandVals :
    /\ \A c \in {"LT", "LTE"} :
         SingleFilterCompiled(c, v)
         => /\ Len(ranges) = 1
            /\ v # Null => /\ ranges[1].start = << getValueEdgeAfter(undefinedSymbol) >>
                           /\ ExcludesNullAndUndefined(ranges[1])
            /\ v = Null => ranges[1].start = << <<BinaryInfinityNegative>> >>
    /\ \A c \in {"GT", "GTE"} :
         SingleFilterCompiled(c, v)
         => /\ Len(ranges) = 1
            /\ ranges[1].end = IF v = Null THEN << getValueEdgeAfter(Null) >>
                               ELSE << <<BinaryInfinityPositive>> >>

\* {a: {lte: MaxVal}}: keys holding a value are inside, keys holding null are not
C18_Witness ==
  /\ SingleFilterCompiled("LTE", MaxVal)
  /\ Len(ranges) = 1
  /\ Inside(<<MaxVal, 1>>, ranges[1]) /\ Inside(<<1, 1>>, ranges[1])
  /\ ~Inside(<<Null, 1>>, ranges[1]) /\ ~Inside(<<undefinedSymbol, 1>>, ranges[1])

(* ------------------------------- C19 ---------------------------------- *)
\* the filters on fieldName the index can use: a supported comparator, and
\* not a negated one on a multi-key index
SupportedOn(fieldName) ==
  {i \in DOMAIN args.dbQueries :
     /\ args.dbQueries[i].field = fieldName
     /\ args.dbQueries[i].comparator \in AllComparators
     /\ NonMultiKey \/ args.dbQueries[i].comparator \notin {"NE", "NIN"}}

\* EQ and IN being the most specific comparators, the filter chosen for a
\* field is an equality filter exactly when the field has a supported one
EqualityChosenOn(fieldName) ==
  \E i \in SupportedOn(fieldName) : args.dbQueries[i].comparator \in {"EQ", "IN"}

KeyFieldName(j) == args.indexMetadata.keyFields[j][1]

\* the number k of leading key fields f1..fk that each have a supported
\* filter, the filters chosen for f1..f(k-1) being EQ or IN
UsablePrefix ==
  Cardinality({k \in 1..Len(args.indexMetadata.keyFields) :
                 /\ \A j \in 1..k : SupportedOn(KeyFieldName(j)) # {}
                 /\ \A j \in 1..(k - 1) : EqualityChosenOn(KeyFieldName(j))})

\* C19: every boundary getIndexRanges returns has length k, the number of
\* leading key fields that each have a supported filter with EQ or IN chosen
\* for all but the last of them; no range is returned when k = 0; and
\* getIndexRanges adds to usedQueries no filter on a later key field.
C19_PrefixOnly ==
  pc = "ranges"
  => /\ \A r \in DOMAIN ranges :
          Len(ranges[r].start) = UsablePrefix /\ Len(ranges[r].end) = UsablePrefix
     /\ UsablePrefix = 0 => ranges = <<>> /\ usedQueries = {}
     /\ \A i \in usedQueries :
          \E j \in 1..UsablePrefix : args.dbQueries[i].field = KeyFieldName(j)

\* a range filter on b after an equality filter on a, and a filter on c
\* that is left alone
C19_Witness ==
  /\ pc = "ranges" /\ UsablePrefix = 2
  /\ Len(ranges) > 0
  /\ \A r \in DOMAIN ranges : Len(ranges[r].start) = 2
  /\ SupportedOn("c") # {}
  /\ \A i \in SupportedOn("c") : i \notin usedQueries
  /\ \E i \in usedQueries : args.dbQueries[i].comparator = "LT"

(* ------------------------------- C20 ---------------------------------- *)
\* the first-field value of an entry is null or the undefined sentinel
NullOrUndefined(entry) == entry[2] \in {Null, undefinedSymbol}

\* entries of the one kind all come before entries of the other kind, and
\* each kind is in the given key order
DefinedThenNull(es) ==
  \A i, j \in DOMAIN es :
    i < j => /\ ~(NullOrUndefined(es[i]) /\ ~NullOrUndefined(es[j]))
             /\ NullOrUndefined(es[i]) = NullOrUndefined(es[j]) => LexLeq(es[i], es[j])

NullThenDefined(es) ==
  \A i, j \in DOMAIN es :
    i < j => /\ ~(~NullOrUndefined(es[i]) /\ NullOrUndefined(es[j]))
             /\ NullOrUndefined(es[i]) = NullOrUndefined(es[j]) => LexLeq(es[j], es[i])

\* what the same call yields with the reverse flag the other way round
OppositeScan ==
  traverseAll([args EXCEPT !.reverse = ~@], store,
              filterUsingIndex([args EXCEPT !.reverse = ~@]).lmdbRanges,
              filterUsingIndex([args EXCEPT !.reverse = ~@]).filtersToApply,
              filterUsingIndex([args EXCEPT !.reverse = ~@]).dedup, <<>>)

\* C20: when getIndexRanges returns no range, a non-reversed scan yields the
\* entries with a defined first-field value before those holding null or
\* undefined, each segment in ascending key order; a reversed scan yields
\* the null/undefined segment first, each segment in descending key order;
\* and the reversed sequence is the exact reverse of the non-reversed one.
C20_FullScanOrder ==
  (Drained /\ Len(ranges) = 0)
  => /\ IF args.reverse THEN NullThenDefined(entries) ELSE DefinedThenNull(entries)
     /\ entries = Reverse(OppositeScan)

(* --------------- inputs: residual filters and pushdown ---------------- *)
(* An index on (a, b), without multi-key fields or with the multi-key     *)
(* field b: on a no filter or one equality, range or negated filter; on b *)
(* no filter, one equality, IN, range or negated filter, or a lower with  *)
(* an upper bound; with or without a filter on c, a field the index does  *)
(* not hold; the filters listed in key order or against it; with and      *)
(* without limit and skip.                                                *)
ResidualAFilters ==
  {<<>>, <<Statement("a", "EQ", 1)>>, <<Statement("a", "GTE", 1)>>,
   <<Statement("a", "NE", 1)>>}

ResidualBFilters ==
  {<<>>}
  \cup {<<Statement("b", "EQ", v)>> : v \in {Null, 1}}
  \cup {<<ArrStatement("b", "IN", ArrayOf({1, MaxStoreVal}))>>,
        <<Statement("b", "LT", MaxStoreVal)>>,
        <<Statement("b", "NE", 1)>>,
        <<Statement("b", "GTE", 1), Statement("b", "LT", MaxStoreVal)>>}

ResidualCFilters == {<<>>, <<Statement("c", "EQ", 1)>>}

ResidualQueries ==
  UNION {{qa \o qb \o qc, qc \o qb \o qa} :
           qa \in ResidualAFilters, qb \in ResidualBFilters, qc \in ResidualCFilters}

ResidualKeyFields == {<< <<"a", 1>>, <<"b", 1>> >>, << <<"a", 1>>, <<"b", -1>> >>}

\* the first record holds a = null, the others a = 1 or 2 in turn; b runs
\* over the stored values
ResidualStores ==
  {IndexKeys([i \in 1..MaxRecords |->
                << {IF i = 1 THEN Null ELSE (i % 2) + 1}, {r[i]} >>]) \cup OtherIndexKeys :
     r \in {x \in SingleRecords : x[1] = Null /\ x[MaxRecords] = MaxStoreVal}}

\* b is an array: record i holds the value it holds in turn and the value o
ResidualArrayStores ==
  {IndexKeys([i \in 1..MaxRecords |->
                << {(i % 2) + 1}, {(i % MaxStoreVal) + 1, o} >>]) \cup OtherIndexKeys :
     o \in 1..MaxStoreVal}

InitResidual ==
  \/ InitWith(ResidualStores, ResidualKeyFields, {{}}, ResidualQueries,
              {Undefined, 1}, {Undefined, MaxSkip})
  \/ InitWith(ResidualArrayStores, ResidualKeyFields, {{"b"}}, ResidualQueries,
              {Undefined, 1}, {Undefined, MaxSkip})

SpecResidual == InitResidual /\ [][Next]_vars

(* ------------------------------- C21 ---------------------------------- *)
\* the filters range compilation consumes for the call's arguments
ConsumedByCompilation == getIndexRanges(args.indexMetadata, args.dbQueries).used

\* some filter is left unconsumed after range compilation
PartiallySatisfied == ConsumedByCompilation # DOMAIN args.dbQueries

\* nothing is reported as pushed down
NothingPushed == usedLimit = Undefined /\ usedSkip = 0

\* every store scan issued so far carries no limit and offset 0
ScansUnlimited ==
  \A k \in DOMAIN GetRangeCalls :
    GetRangeCalls[k].limit = Undefined /\ GetRangeCalls[k].offset = 0

\* C21: when some filter is left unconsumed after range compilation, every
\* store scan of the range scan is issued without a limit and with offset 0
\* and filterUsingIndex reports usedLimit undefined and usedSkip 0, also when
\* residual filtering consumes the remaining filters; for a full scan
\* usedLimit is undefined and usedSkip 0 whatever the caller requested.
C21_PushdownDisabled ==
  /\ (pc = "filter" /\ Len(ranges) > 0 /\ PartiallySatisfied)
       => NothingPushed /\ ScansUnlimited
  /\ (pc = "filter" /\ Len(ranges) = 0) => NothingPushed

(* ------------- inputs: limit and skip on a multi-key index ------------ *)
(* A single-field index whose field is multi-key: no filter, one          *)
(* equality, IN or range filter, a lower with an upper bound, or a range  *)
(* filter with a filter on a field the index does not hold; with every    *)
(* limit and skip.                                                        *)
InflateQueries ==
  {<<>>}
  \cup {<<Statement("a", "EQ", v)>> : v \in 1..2}
  \cup {<<Statement("a", "GTE", v)>> : v \in DefinedVals}
  \cup {<<ArrStatement("a", "IN", ArrayOf(S))>> : S \in SmallSets \cup {{}}}
  \cup {<<Statement("a", "GTE", 1), Statement("a", "LT", MaxVal)>>,
        <<Statement("a", "GTE", 1), Statement("c", "EQ", 1)>>}

\* record k holds the array [1, MaxStoreVal], every other record the array [o]
InflateStores ==
  {IndexKeys([i \in 1..MaxRecords |-> << IF i = k THEN {1, MaxStoreVal} ELSE {o} >>])
     \cup OtherIndexKeys :
     k \in 1..MaxRecords, o \in 1..MaxStoreVal}

InitInflate ==
  InitWith(InflateStores, SingleKeyFields, {{"a"}}, InflateQueries, Limits, Skips)

SpecInflate == InitInflate /\ [][Next]_vars

(* ------------------------------- C22 ---------------------------------- *)
\* a multi-key index that needs deduplication, all filters consumed by
\* range compilation, no skip and a limit L > 0
InflationCase ==
  /\ pc = "filter"
  /\ DeduplicationNeeded
  /\ ConsumedByCompilation = DOMAIN args.dbQueries
  /\ RequestedSkip = 0
  /\ args.limit # Undefined /\ args.limit > 0

\* the limit reported and pushed to every store scan is L * maxKeysPerItem
InflatedLimitPushed ==
  /\ usedLimit = args.limit * args.indexMetadata.maxKeysPerItem
  /\ \A k \in DOMAIN GetRangeCalls :
       GetRangeCalls[k].limit = args.limit * args.indexMetadata.maxKeysPerItem

\* the records with an index entry inside some compiled range
MatchingRecords == {getIdentifier(k) : k \in {x \in OwnKeys : InsideAny(Tail(x), ranges)}}

YieldedRecords == {getIdentifier(entries[k]) : k \in DOMAIN entries}

\* once the sequence is consumed, it holds at least min(L, number of
\* distinct matching records) record identifiers
EnoughRecords ==
  Drained => Cardinality(YieldedRecords) >= Min2(args.limit, Cardinality(MatchingRecords))

\* C22 as stated: for a multi-key index that needs deduplication, with all
\* filters consumed, skip = 0 and limit L > 0, the limit pushed to the store
\* and reported as usedLimit is L * maxKeysPerItem, and the deduplicated
\* result contains at least min(L, number of distinct matching records)
\* record identifiers.
C22_AsStated ==
  InflationCase => InflatedLimitPushed /\ EnoughRecords

\* C22 amended: the same, when range compilation returns at least one range.
C22_LimitInflation ==
  (InflationCase /\ Len(ranges) > 0) => InflatedLimitPushed /\ EnoughRecords

\* limit 1 on an index with two keys per record: two entries of one record
\* are scanned and one is yielded
C22_Witness ==
  /\ InflationCase /\ Drained /\ Len(ranges) = 1
  /\ args.limit = 1 /\ args.indexMetadata.maxKeysPerItem = 2
  /\ usedLimit = 2
  /\ Len(scanned) = 2 /\ Len(entries) = 1
  /\ Cardinality(MatchingRecords) > 1

(* ------------------------------- C23 ---------------------------------- *)
\* the complete results of the first n store scans, in list order
RECURSIVE ScansOf(_)
ScansOf(n) ==
  IF n = 0 THEN <<>>
  ELSE ScansOf(n - 1) \o getRange(store, StoreOptions(lmdbRanges[n]))

\* as many ranges are open as scans were consumed to their end, in list order
OpenedInOrder ==
  /\ opened \in 0..Len(lmdbRanges)
  /\ scanned = ScansOf(opened)

\* C23: no getRange call is issued before the sequence filterUsingIndex
\* returns is first consumed (nor by getIndexRanges or countUsingIndexOnly);
\* while it is consumed the ranges are opened one at a time in list order,
\* range i+1 only after the scan of range i is exhausted; a consumer that
\* stops leaves the remaining ranges unopened.
C23_LazySequential ==
  /\ [](pc # "filter" => opened = 0)
  /\ []OpenedInOrder
  /\ [][/\ pc = "idle" => opened' = 0 /\ scanned' = <<>>
        /\ opened' \in {opened, opened + 1}
        /\ lmdbRanges' # lmdbRanges => opened = 0]_vars

\* the consumer has drained the first range of two and the second is unopened
C23_Witness ==
  /\ pc = "filter" /\ Len(lmdbRanges) = 2 /\ opened = 1
  /\ scanned # <<>>
  /\ getRange(store, StoreOptions(lmdbRanges[2])) # <<>>

(* ------------------------------- C24 ---------------------------------- *)
\* a store range scanned without any limit
Unbounded(range) == [range EXCEPT !.limit = Undefined]

\* the complete contents of the first n ranges of rs, in list order, each
\* after its own offset
RECURSIVE CompleteContents(_, _)
CompleteContents(rs, n) ==
  IF n = 0 THEN <<>>
  ELSE CompleteContents(rs, n - 1) \o getRange(store, Unbounded(StoreOptions(rs[n])))

\* C24: whenever the effective limit is undefined (no limit requested,
\* pushdown disabled, or full scan) every store scan traverseRanges issues
\* carries no limit and the sequence yields every index entry whose key lies
\* in a scanned range; every getKeysCount call of countUsingIndexOnly carries
\* no limit and the count is the number of keys in the counted ranges.
C24_UnboundedScan ==
  /\ (pc = "filter" /\ usedLimit = Undefined)
       => /\ \A k \in DOMAIN GetRangeCalls : GetRangeCalls[k].limit = Undefined
          /\ scanned = CompleteContents(lmdbRanges, opened)
  /\ pc = "count"
       => /\ \A k \in DOMAIN keysCountCalls : keysCountCalls[k].limit = Undefined
          /\ count = Len(CompleteContents(keysCountCalls, Len(keysCountCalls)))

(* ------------------------------- C25 ---------------------------------- *)
IndexFieldNames ==
  {args.indexMetadata.keyFields[j][1] : j \in DOMAIN args.indexMetadata.keyFields}

\* the filters left unconsumed by range compilation whose field is an index
\* key field, NE and NIN excepted when the index is multi-key
ResidualFilters ==
  {i \in DOMAIN args.dbQueries \ ConsumedByCompilation :
     /\ args.dbQueries[i].field \in IndexFieldNames
     /\ NonMultiKey \/ ~Negated(i)}

\* position of the filter's field in keyFields, plus one for the keyPrefix
KeyPosition(i) ==
  (CHOOSE j \in DOMAIN args.indexMetadata.keyFields :
     args.indexMetadata.keyFields[j][1] = args.dbQueries[i].field) + 1

PassesResidual(entry) ==
  \A i \in ResidualFilters : matchesFilter(args.dbQueries[i], entry[KeyPosition(i)])

\* C25: when some filter is unconsumed after range compilation, an entry of
\* the scan is kept if and only if every unconsumed filter on an index key
\* field (NE/NIN excepted on a multi-key index) is satisfied by the key
\* component at the field's position + 1 (kept entries being deduplicated
\* afterwards when deduplication is needed); these filters are all in
\* usedQueries when filterUsingIndex returns, and filters on fields outside
\* the index stay unconsumed and do not affect the entries.
C25_ResidualFiltering ==
  (pc = "filter" /\ PartiallySatisfied)
  => /\ usedQueries = ConsumedByCompilation \cup ResidualFilters
     /\ \A i \in DOMAIN args.dbQueries :
          args.dbQueries[i].field \notin IndexFieldNames => i \notin usedQueries
     /\ entries = IF DeduplicationNeeded
                  THEN deduplicate(SelectSeq(scanned, PassesResidual), {})
                  ELSE SelectSeq(scanned, PassesResidual)

\* a full scan narrowed by a filter on b, with a filter on c left alone: one
\* of two scanned entries is kept
C25_Witness ==
  /\ Drained /\ PartiallySatisfied /\ NonMultiKey
  /\ ResidualFilters # {}
  /\ \E i \in DOMAIN args.dbQueries : args.dbQueries[i].field = "c" /\ i \notin usedQueries
  /\ Len(scanned) = 2 /\ Len(entries) = 1

(* ------------------------------- C26 ---------------------------------- *)
\* C26: if getIndexRanges adds at least one filter to usedQueries it returns
\* at least one range, so that filterUsingIndex does a full index scan and
\* countUsingIndexOnly a whole-index count only when range compilation
\* consumed no filter; a filter {in: []} on the first key field never
\* results in a scan that returns entries.
C26_ConsumedRestricts ==
  /\ (pc = "ranges" /\ usedQueries # {}) => Len(ranges) > 0
  /\ (pc \in {"filter", "count"} /\ Len(ranges) = 0) => ConsumedByCompilation = {}
  /\ (/\ pc = "filter"
      /\ \E i \in DOMAIN args.dbQueries :
           args.dbQueries[i] = ArrStatement(args.indexMetadata.keyFields[1][1], "IN", <<>>))
       => entries = <<>>

(* ------------------------------- C27 ---------------------------------- *)
\* the query is one GT/GTE filter and one LT/LTE filter on the index field,
\* and range compilation consumed both
BoundPairCompiled ==
  /\ pc = "ranges" /\ SingleFieldIndex
  /\ Len(args.dbQueries) = 2 /\ usedQueries = {1, 2}
  /\ \E i, j \in {1, 2} : /\ args.dbQueries[i].comparator \in {"GT", "GTE"}
                           /\ args.dbQueries[j].comparator \in {"LT", "LTE"}

\* the range the i-th filter compiles to on its own
OwnRange(i) == getIndexRanges(args.indexMetadata, <<args.dbQueries[i]>>).ranges[1]

LowerFilter == CHOOSE i \in {1, 2} : args.dbQueries[i].comparator \in {"GT", "GTE"}
UpperFilter == CHOOSE i \in {1, 2} : args.dbQueries[i].comparator \in {"LT", "LTE"}

\* C27: when an LT/LTE filter is consumed while a GT/GTE filter on the same
\* field is resolved, or the other way round, the range starts where the
\* lower filter's value puts it and ends where the upper filter's value puts
\* it, also when that value is null, and no key that violates a consumed
\* filter (lies outside the range the filter compiles to on its own) lies
\* inside the compiled range.
C27_ComplementEnforced ==
  BoundPairCompiled
  => /\ Len(ranges) = 1
     /\ ranges[1].start = OwnRange(LowerFilter).start
     /\ ranges[1].end = OwnRange(UpperFilter).end
     /\ \A key \in SingleFieldKeys :
          Inside(key, ranges[1])
          => \A i \in usedQueries : Inside(key, OwnRange(i))

(* ------------------------------- C28 ---------------------------------- *)
\* the filters whose field is one of the index key fields
OnIndexFields == {i \in DOMAIN args.dbQueries : args.dbQueries[i].field \in IndexFieldNames}

\* C28: for a non-multi-key index, whenever filterUsingIndex returns
\* normally usedQueries is exactly the set of filters whose field is an
\* index key field: each of them is consumed by range compilation or by
\* residual filtering, and no filter on a field outside the index is.
C28_UsedQueriesExact ==
  (pc = "filter" /\ NonMultiKey)
  => /\ usedQueries = OnIndexFields
     /\ usedQueries = ConsumedByCompilation \cup ResidualFilters

\* a lower bound on a compiled with nothing else, a negated filter on b left
\* to residual filtering and a filter on c left unconsumed
C28_Witness ==
  /\ pc = "filter" /\ NonMultiKey
  /\ Len(args.dbQueries) = 3
  /\ Cardinality(ConsumedByCompilation) = 1
  /\ \E i \in ResidualFilters : Negated(i)
  /\ \E i \in DOMAIN args.dbQueries : args.dbQueries[i].field = "c" /\ i \notin usedQueries
  /\ Cardinality(usedQueries) = 2

(* ------------------------------- C29 ---------------------------------- *)
\* the complete contents of the k-th compiled range, in scan direction
FullRange(k) ==
  IF args.reverse
  THEN Reverse(SortKeys({x \in OwnKeys : Inside(Tail(x), ranges[k])}))
  ELSE SortKeys({x \in OwnKeys : Inside(Tail(x), ranges[k])})

\* the concatenation of the complete contents of the first n compiled ranges
RECURSIVE FullRanges(_)
FullRanges(n) == IF n = 0 THEN <<>> ELSE FullRanges(n - 1) \o FullRange(n)

\* a non-multi-key query with all filters consumed by range compilation,
\* several ranges and a requested limit, its sequence consumed to the end
OverFetchCase ==
  /\ Drained /\ NonMultiKey
  /\ Len(ranges) > 1
  /\ ConsumedByCompilation = DOMAIN args.dbQueries
  /\ args.limit # Undefined

\* C29: for a non-multi-key query with all filters consumed that compiles to
\* several ranges, with requested limit L and skip S, the first S+L entries
\* of the returned sequence are, in order, the first S+L entries of the
\* concatenation of the complete contents of the compiled ranges in list
\* order, each range being scanned with its own cap of S+L.
C29_OverFetchPrefix ==
  OverFetchCase
  => /\ \A k \in DOMAIN GetRangeCalls : GetRangeCalls[k].limit = RequestedSkip + args.limit
     /\ Take(entries, RequestedSkip + args.limit)
          = Take(FullRanges(Len(ranges)), RequestedSkip + args.limit)

\* the cap cuts a range short and the sequence still holds more than S+L entries
C29_Witness ==
  /\ OverFetchCase
  /\ args.limit > 0
  /\ Len(entries) > RequestedSkip + args.limit
  /\ Len(FullRanges(Len(ranges))) > Len(entries)

(* ------------------------------- C30 ---------------------------------- *)
\* the call's arguments with skip 0, the limit extended by the entries the
\* call skips
WithoutSkip ==
  [args EXCEPT !.skip = 0,
               !.limit = IF @ = Undefined THEN Undefined ELSE @ + usedSkip]

\* the final results of the same query with skip 0, consumed to the end
SkipZeroResults ==
  traverseAll(WithoutSkip, store,
              filterUsingIndex(WithoutSkip).lmdbRanges,
              filterUsingIndex(WithoutSkip).filtersToApply,
              filterUsingIndex(WithoutSkip).dedup, <<>>)

\* the entries the caller keeps of a sequence: the first L with a requested
\* limit L, all of them without
Page(es) == IF args.limit = Undefined THEN es ELSE Take(es, args.limit)

\* C30: whenever filterUsingIndex returns usedSkip = S > 0, the returned
\* sequence is the sequence of final results of the same query with skip 0
\* without its first S entries, as far as the caller's limit reaches; on a
\* multi-key index that needs deduplication S distinct records are skipped,
\* not S raw index entries.
C30_SkipApplied ==
  (Drained /\ usedSkip > 0) => Page(entries) = Page(Drop(SkipZeroResults, usedSkip))

====
